---- MODULE Spec2Model ----
(***************************************************************************)
(* A model of the obric-mcp-server-mvp query layer: the entity resolver    *)
(* (_build_entity_match), EntityDB.find_entity, the neighbourhood and path *)
(* traversals, and the Neo4jClient connection manager, read from the       *)
(* Python sources under src/src/obric_mcp_server.                          *)
(*                                                                         *)
(* Text values are sequences of one-character strings, so that strip(),    *)
(* toLower() and CONTAINS are computed and not assumed.  Python's None and *)
(* Cypher's null are the value None.  Python's ValueError is the error the *)
(* specification calls InvalidArgument.                                    *)
(***************************************************************************)
EXTENDS Integers, Sequences, FiniteSets, TLC

VARIABLES
    edges,      \* the store's raw relationships, a set of <<from, to>> node pairs
    call,       \* the operation last called, with its arguments
    outcome,    \* "idle", "ok", "ValueError" or "ConnectionError"
    query,      \* what the last call sent to the store (match clause, parameters)
    result,     \* the records the last call returned, a sequence
    paths,      \* the node sequences matched by the last traversal query
    driver,     \* Neo4jClient._driver ("none" or "open") of the tool layer's shared
                \* client and of the client a CLI command creates
    sessions,   \* number of sessions currently open
    trips,      \* what the current call has done at the store so far, in order:
                \* "verify_connectivity", "session", "run"
    pc,         \* position of the call in flight: "idle", or a step name
    config,     \* the Config the shared client was made with (neo4j_uri,
                \* neo4j_password)
    drivers     \* the driver objects GraphDatabase.driver has made for the shared
                \* client, in order of creation, each "open" or "closed"; followed
                \* where connect() is taken statement by statement (SpecConnect)

vars == <<edges, call, outcome, query, result, paths, driver, sessions, trips, pc,
          config, drivers>>

---------------------------------------------------------------------------
(* Bounds of the model *)

MaxStrLen == 2      \* longest name hint tried
MaxLimit == 3       \* largest limit argument tried
MaxTier == 3        \* largest tier argument tried

---------------------------------------------------------------------------
(* Text *)

None == <<"<None>">>

Alphabet == {"a", "B", " "}

RECURSIVE StrUpTo(_)
StrUpTo(n) ==
    IF n = 0 THEN {<<>>}
    ELSE LET shorter == StrUpTo(n - 1)
         IN  shorter \cup {Append(s, c) : s \in {t \in shorter : Len(t) = n - 1}, c \in Alphabet}

LowerChar(c) == IF c = "A" THEN "a" ELSE IF c = "B" THEN "b" ELSE c

\* Cypher toLower(): null stays null
toLower(s) == IF s = None THEN None ELSE [i \in 1..Len(s) |-> LowerChar(s[i])]

RECURSIVE lstrip(_)
lstrip(s) == IF s # <<>> /\ Head(s) = " " THEN lstrip(Tail(s)) ELSE s

RECURSIVE rstrip(_)
rstrip(s) == IF s # <<>> /\ s[Len(s)] = " " THEN rstrip(SubSeq(s, 1, Len(s) - 1)) ELSE s

\* Python str.strip()
strip(s) == rstrip(lstrip(s))

\* Cypher `a CONTAINS b`; a null operand gives null, which a WHERE treats as false
CONTAINS(a, b) ==
    /\ a # None
    /\ b # None
    /\ \E i \in 0..(Len(a) - Len(b)) : SubSeq(a, i + 1, i + Len(b)) = b

\* Cypher `a = b` on text; a null operand gives null, false in a WHERE
CypherEq(a, b) == a # None /\ b # None /\ a = b

\* EntityDB._norm (the same body in NeighbourhoodDB, PathDB, PersonDB)
norm(value) ==
    IF value = None THEN None
    ELSE LET v == strip(value) IN IF v # <<>> THEN v ELSE None

---------------------------------------------------------------------------
(* The store: nodes with their labels and properties *)

Entities == {"E1", "E2", "E3", "E4"}
Details == {"R1", "R2", "R3", "R4"}
Persons == {"P1", "P2"}
Nodes == Entities \cup Details \cup Persons

Label(n) ==
    IF n \in Entities THEN "Entity"
    ELSE IF n \in Details THEN "RelationshipDetail" ELSE "Person"

\* Properties of each node.  P1 carries the same id as E2, and E1 and E3 the
\* same ticker up to case; E2 has no ticker and no legal_name.  E4 is a
\* government agency, the other entities are companies.
Props(n) ==
    CASE n = "E1" -> [id |-> <<"1">>, ticker |-> <<"A", "B">>, entity_type |-> "company",
                      short_name |-> <<"A", "b">>, legal_name |-> <<"A", "b", " ", "a">>]
      [] n = "E2" -> [id |-> <<"2">>, ticker |-> None, entity_type |-> "company",
                      short_name |-> <<"b", "a">>, legal_name |-> None]
      [] n = "E3" -> [id |-> <<"3">>, ticker |-> <<"a", "b">>, entity_type |-> "company",
                      short_name |-> <<"B">>, legal_name |-> <<"A", "a">>]
      [] n = "E4" -> [id |-> <<"4">>, ticker |-> None, entity_type |-> "government",
                      short_name |-> <<"g">>, legal_name |-> None]
      [] n = "R1" -> [id |-> <<"7">>, ticker |-> None, entity_type |-> None,
                      short_name |-> None, legal_name |-> None]
      [] n = "R2" -> [id |-> <<"8">>, ticker |-> None, entity_type |-> None,
                      short_name |-> None, legal_name |-> None]
      [] n = "R3" -> [id |-> <<"9">>, ticker |-> None, entity_type |-> None,
                      short_name |-> None, legal_name |-> None]
      [] n = "R4" -> [id |-> <<"6">>, ticker |-> None, entity_type |-> None,
                      short_name |-> None, legal_name |-> None]
      [] n = "P1" -> [id |-> <<"2">>, ticker |-> None, entity_type |-> None,
                      short_name |-> None, legal_name |-> None]
      [] n = "P2" -> [id |-> <<"5">>, ticker |-> None, entity_type |-> None,
                      short_name |-> None, legal_name |-> None]

---------------------------------------------------------------------------
(* Identity resolver *)

ValueError == [error |-> "ValueError"]

\* The name conditions of the fallback branch: one per supplied name hint
NameClauses(short_name, legal_name) ==
    (IF short_name # None THEN {"short_name"} ELSE {})
        \cup (IF legal_name # None THEN {"legal_name"} ELSE {})

NameParams(short_name, legal_name) ==
    [k \in NameClauses(short_name, legal_name) |->
        IF k = "short_name" THEN short_name ELSE legal_name]

\* MatchSpec with the ticker rule tried before the id rule
MatchSpec_TickerFirst(id, ticker, short_name, legal_name) ==
    IF ticker # None THEN
        [error |-> "", clause |-> "ticker", entityLabel |-> TRUE, params |-> [ticker |-> ticker]]
    ELSE IF id # None THEN
        [error |-> "", clause |-> "id", entityLabel |-> FALSE, params |-> [id |-> id]]
    ELSE IF short_name = None /\ legal_name = None THEN ValueError
    ELSE [error |-> "", clause |-> "name", entityLabel |-> TRUE,
          params |-> NameParams(short_name, legal_name)]

\* The priority chain shared by the resolvers' copies, on hints already
\* normalised by the caller: id, else ticker, else names, else ValueError.
MatchSpec(id, ticker, short_name, legal_name) ==
    IF id # None THEN
        [error |-> "", clause |-> "id", entityLabel |-> FALSE, params |-> [id |-> id]]
    ELSE IF ticker # None THEN
        [error |-> "", clause |-> "ticker", entityLabel |-> TRUE, params |-> [ticker |-> ticker]]
    ELSE IF short_name = None /\ legal_name = None THEN ValueError
    ELSE [error |-> "", clause |-> "name", entityLabel |-> TRUE,
          params |-> NameParams(short_name, legal_name)]

\* EntityDB._build_entity_match: ticker, short_name and legal_name are
\* normalised, id is used as given.
EntityDB_build_entity_match(id, ticker, short_name, legal_name) ==
    MatchSpec(id, norm(ticker), norm(short_name), norm(legal_name))

\* Selects with the name conditions joined by AND
Selects_AndNames(m, n) ==
    CASE m.clause = "id" -> CypherEq(Props(n).id, m.params.id)
      [] m.clause = "ticker" ->
            /\ Label(n) = "Entity"
            /\ CypherEq(toLower(Props(n).ticker), toLower(m.params.ticker))
      [] m.clause = "name" ->
            /\ Label(n) = "Entity"
            /\ \A k \in DOMAIN m.params :
                  \/ CONTAINS(toLower(Props(n).short_name), toLower(m.params[k]))
                  \/ CONTAINS(toLower(Props(n).legal_name), toLower(m.params[k]))

\* The nodes a match clause selects in the store (the Cypher MATCH ... WHERE)
Selects(m, n) ==
    CASE m.clause = "id" -> CypherEq(Props(n).id, m.params.id)
      [] m.clause = "ticker" ->
            /\ Label(n) = "Entity"
            /\ CypherEq(toLower(Props(n).ticker), toLower(m.params.ticker))
      [] m.clause = "name" ->
            /\ Label(n) = "Entity"
            /\ \E k \in DOMAIN m.params :
                  \/ CONTAINS(toLower(Props(n).short_name), toLower(m.params[k]))
                  \/ CONTAINS(toLower(Props(n).legal_name), toLower(m.params[k]))

MatchNodes(m) == {n \in Nodes : Selects(m, n)}

---------------------------------------------------------------------------
(* Store results: LIMIT without ORDER BY returns any rows in any order *)

Min(a, b) == IF a < b THEN a ELSE b

Range(s) == {s[i] : i \in 1..Len(s)}

RECURSIVE Arrangements(_, _)
\* the sequences of k distinct elements of S
Arrangements(S, k) ==
    IF k <= 0 \/ S = {} THEN {<<>>}
    ELSE UNION {{<<x>> \o t : t \in Arrangements(S \ {x}, k - 1)} : x \in S}

\* RETURN ... LIMIT k over the row set S
Limited(S, k) == Arrangements(S, Min(k, Cardinality(S)))

---------------------------------------------------------------------------
(* Inputs *)

NameHints == StrUpTo(MaxStrLen) \cup {None}
TickerHints == {None, <<" ">>, <<"a", "B", " ">>, <<"a">>}
IdHints == {None, <<" ">>, <<"1">>, <<"2">>, <<"9">>}
Limits == {1, MaxLimit}

NoCall == [op |-> "none"]
\* Neo4jClient.__init__: self._driver = None
NoDriver == [tool |-> "none", cli |-> "none"]
NoQuery == [error |-> "", clause |-> "none"]
\* a Config read from an environment that sets NEO4J_URI and NEO4J_PASSWORD
Configured == [neo4j_uri |-> <<"b", "1">>, neo4j_password |-> <<"p">>]

Init ==
    /\ edges = {}
    /\ call = NoCall
    /\ outcome = "idle"
    /\ query = NoQuery
    /\ result = <<>>
    /\ paths = {}
    /\ driver = NoDriver
    /\ sessions = 0
    /\ trips = <<>>
    /\ pc = "idle"
    /\ config = Configured
    /\ drivers = <<>>

clientVars == <<driver, sessions, trips, pc, config, drivers>>

---------------------------------------------------------------------------
(* EntityDB.find_entity *)

\* FindEntityLimit with $limit used for id lookups too
FindEntityLimit_Always(id, limit) == limit

\* the LIMIT of the query: 1 for an id lookup, $limit otherwise
FindEntityLimit(id, limit) == IF id # None THEN 1 ELSE limit

find_entity(id, ticker, short_name, legal_name, limit) ==
    LET m == EntityDB_build_entity_match(id, ticker, short_name, legal_name)
    IN  /\ call' = [op |-> "find_entity", id |-> id, ticker |-> ticker,
                    short_name |-> short_name, legal_name |-> legal_name, limit |-> limit]
        /\ IF m.error # "" THEN
               /\ outcome' = "ValueError"
               /\ query' = NoQuery
               /\ result' = <<>>
           ELSE
               /\ outcome' = "ok"
               /\ query' = [m EXCEPT !.error = ""]
               /\ result' \in Limited(MatchNodes(m), FindEntityLimit(id, limit))
        /\ UNCHANGED <<edges, paths, clientVars>>

\* A caller makes one call at a time and takes its response before the next.
FindEntity ==
    /\ outcome = "idle"
    /\ \E id \in IdHints, ticker \in TickerHints, short_name \in NameHints,
          legal_name \in NameHints, limit \in Limits :
           find_entity(id, ticker, short_name, legal_name, limit)

\* The caller takes the response ({"count", "results"} or the raised error);
\* nothing is kept from one call to the next.
Respond ==
    /\ outcome # "idle"
    /\ pc = "idle"
    /\ call' = NoCall
    /\ outcome' = "idle"
    /\ query' = NoQuery
    /\ result' = <<>>
    /\ paths' = {}
    /\ UNCHANGED <<edges, clientVars>>

NextResolve == FindEntity \/ Respond

SpecResolve == Init /\ [][NextResolve]_vars

---------------------------------------------------------------------------
(* Graph traversal: the variable-length patterns of the neighbourhood and  *)
(* path queries                                                            *)

\* The raw relationships an ingested graph may hold.  They include a cycle
\* E1 -> R1 -> E2 -> R2 -> E1, two routes of different length from E1 to E3,
\* a relationship between two Entity nodes and one from a RelationshipDetail
\* to a Person.
CandidateEdges ==
    { <<"E1", "R1">>, <<"R1", "E2">>, <<"E2", "R2">>, <<"R2", "E1">>,
      <<"E1", "R3">>, <<"R3", "E3">>, <<"R2", "E3">>, <<"E1", "E3">>,
      <<"R1", "P1">> }

InitGraph ==
    /\ edges \in SUBSET CandidateEdges
    /\ call = NoCall
    /\ outcome = "idle"
    /\ query = NoQuery
    /\ result = <<>>
    /\ paths = {}
    /\ driver = NoDriver
    /\ sessions = 0
    /\ trips = <<>>
    /\ pc = "idle"
    /\ config = Configured
    /\ drivers = <<>>

Last(p) == p[Len(p)]

\* Python's direction=None
NoDirection == "None"

\* Hop with the arrow heads of the pattern dropped
Hop_Undirected(u, v, direction) == <<u, v>> \in edges \/ <<v, u>> \in edges

\* One relationship from u to v in the pattern's direction: "outbound" is
\* -[]->, "inbound" is <-[]-, None is -[]-
Hop(u, v, direction) ==
    CASE direction = "outbound" -> <<u, v>> \in edges
      [] direction = "inbound" -> <<v, u>> \in edges
      [] OTHER -> <<u, v>> \in edges \/ <<v, u>> \in edges

\* the hops of a path, as the pairs of neighbouring nodes
HopsOf(p) == {<<p[i], p[i + 1]>> : i \in 1..(Len(p) - 1)}

\* Cypher never uses one relationship twice in a path; a pattern whose WHERE
\* asks for SINGLE occurrences keeps only paths that use no node twice (the
\* undirected pattern is only ever used with that WHERE).
Step(p, direction, simple) ==
    {Append(p, v) : v \in {w \in Nodes :
        /\ Hop(Last(p), w, direction)
        /\ IF simple THEN w \notin Range(p) ELSE <<Last(p), w>> \notin HopsOf(p)}}

RECURSIVE Grow(_, _, _, _)
\* the paths of 1..k relationships that extend the paths of `layer`
Grow(layer, k, direction, simple) ==
    IF k <= 0 \/ layer = {} THEN {}
    ELSE LET next == UNION {Step(p, direction, simple) : p \in layer}
         IN  next \cup Grow(next, k - 1, direction, simple)

\* (start)-[*1..k]-(end) from each of the start nodes
VarLengthPaths(starts, k, direction, simple) ==
    Grow({<<s>> : s \in starts}, k, direction, simple)

\* ALL(i IN range(0, size(nodes(path)) - 1) WHERE (i % 2 = 0 AND Entity) OR
\* (i % 2 = 1 AND RelationshipDetail)); nodes(path)[i] is p[i + 1]
Alternates(p) ==
    \A i \in 0..(Len(p) - 1) :
        \/ i % 2 = 0 /\ Label(p[i + 1]) = "Entity"
        \/ i % 2 = 1 /\ Label(p[i + 1]) = "RelationshipDetail"

\* size([n IN nodes(path) WHERE 'Entity' IN labels(n)]) - 1
TierOf(p) == Cardinality({i \in 1..Len(p) : Label(p[i]) = "Entity"}) - 1

MinTier(S) == CHOOSE t \in {r.tier : r \in S} : \A r \in S : t <= r.tier

RECURSIVE ByTier(_, _)
\* ORDER BY tier LIMIT k: the first k rows of any ordering of S by tier
ByTier(S, k) ==
    IF k <= 0 \/ S = {} THEN {<<>>}
    ELSE UNION {{<<x>> \o t : t \in ByTier(S \ {x}, k - 1)} :
                    x \in {r \in S : r.tier = MinTier(S)}}

---------------------------------------------------------------------------
(* NeighbourhoodDB *)

\* NeighbourhoodDB._build_entity_match: the same text as EntityDB's
NeighbourhoodDB_build_entity_match(id, ticker, short_name, legal_name) ==
    MatchSpec(id, norm(ticker), norm(short_name), norm(legal_name))

Directions == {NoDirection, "inbound", "outbound"}

\* ConnectedPaths without the alternation filter
ConnectedPaths_NoAlternation(starts, max_tier, direction) ==
    {p \in VarLengthPaths(starts, 2 * max_tier, direction, TRUE) :
        Label(Last(p)) = "Entity"}

\* MATCH path = (start)-[r*1..2*max_tier]-(e:Entity) WHERE simple AND alternating
ConnectedPaths(starts, max_tier, direction) ==
    {p \in VarLengthPaths(starts, 2 * max_tier, direction, TRUE) :
        Label(Last(p)) = "Entity" /\ Alternates(p)}

\* WITH e, path, tier WHERE tier >= $minTier AND tier <= $maxTier
\* RETURN DISTINCT e AS entity, tier
ConnectedRows(ps, min_tier, max_tier) ==
    {[entity |-> Last(p), tier |-> TierOf(p)] :
        p \in {q \in ps : TierOf(q) >= min_tier /\ TierOf(q) <= max_tier}}

\* find_connected_entities without its min_tier check
ConnectedArgsInvalid_NoMinCheck(m, min_tier, max_tier, direction) ==
    \/ max_tier < min_tier
    \/ direction \notin Directions
    \/ m.error # ""

\* the checks find_connected_entities starts with, then the resolver
ConnectedArgsInvalid(m, min_tier, max_tier, direction) ==
    \/ min_tier < 0
    \/ max_tier < min_tier
    \/ direction \notin Directions
    \/ m.error # ""

find_connected_entities(h, min_tier, max_tier, direction, limit) ==
    LET m == NeighbourhoodDB_build_entity_match(h.id, h.ticker, h.short_name, h.legal_name)
        invalid == ConnectedArgsInvalid(m, min_tier, max_tier, direction)
    IN  /\ call' = [op |-> "find_connected_entities", hints |-> h, min_tier |-> min_tier,
                    max_tier |-> max_tier, direction |-> direction, limit |-> limit]
        /\ IF invalid THEN
               /\ outcome' = "ValueError"
               /\ query' = NoQuery
               /\ result' = <<>>
               /\ paths' = {}
           ELSE
               /\ outcome' = "ok"
               /\ query' = m
               /\ paths' = ConnectedPaths(MatchNodes(m), max_tier, direction)
               /\ result' \in ByTier(ConnectedRows(paths', min_tier, max_tier), limit)
        /\ UNCHANGED <<edges, clientVars>>

Hints(id, ticker, short_name, legal_name) ==
    [id |-> id, ticker |-> ticker, short_name |-> short_name, legal_name |-> legal_name]

\* Start hints: E1 by id, the RelationshipDetail R1 by id, E1 and E3 by their
\* common ticker, and no hint at all
StartHints ==
    { Hints(<<"1">>, None, None, None), Hints(<<"7">>, None, None, None),
      Hints(None, <<"a", "B">>, None, None), Hints(None, None, <<" ">>, None) }

\* The arguments tried: every valid combination, and one invalid argument at a time
ConnectedArgs ==
    { a \in [hints : StartHints, min_tier : (-1)..MaxTier, max_tier : 0..MaxTier,
             direction : Directions \cup {"sideways"}, limit : Limits] :
        LET bad == {x \in {<<"hint", a.hints.id = None /\ a.hints.ticker = None>>,
                           <<"direction", a.direction = "sideways">>,
                           <<"min", a.min_tier < 0>>,
                           <<"max", a.max_tier < a.min_tier /\ a.min_tier >= 0>>} : x[2]}
        IN  \/ bad = {}
            \/ /\ Cardinality(bad) = 1
               /\ a.limit = 1
               /\ a.max_tier \in {0, MaxTier}
               /\ a.min_tier <= 1 }

FindConnectedEntities ==
    /\ outcome = "idle"
    /\ \E a \in ConnectedArgs :
           find_connected_entities(a.hints, a.min_tier, a.max_tier, a.direction, a.limit)

---------------------------------------------------------------------------
(* PathDB *)

\* PathDB._build_entity_match: the same text as EntityDB's
PathDB_build_entity_match(id, ticker, short_name, legal_name) ==
    MatchSpec(id, norm(ticker), norm(short_name), norm(legal_name))

\* the checks every directed-path operation starts with, then the resolvers
PathArgsInvalid(m1, m2, direction, max_tier) ==
    \/ direction \notin {"outbound", "inbound"}
    \/ max_tier < 1
    \/ m1.error # ""
    \/ m2.error # ""

\* MATCH path = (e1)-[*1..2*max_tier]->(e2) WHERE alternating (no SINGLE test)
DirectedPaths(e1s, e2s, max_tier, direction) ==
    {p \in VarLengthPaths(e1s, max_tier * 2, direction, FALSE) :
        Last(p) \in e2s /\ Alternates(p)}

\* [n IN nodes(path) WHERE 'Entity' IN labels(n)]
EntityPath(p) == SelectSeq(p, LAMBDA n : Label(n) = "Entity")

\* Reverse that leaves the list as the store gave it
Reverse_Kept(s) == s

\* record["path"][::-1]
Reverse(s) == [i \in 1..Len(s) |-> s[Len(s) + 1 - i]]

\* Segments with "from" and "to" never swapped
Segments_KeysFixed(ns, direction) ==
    [j \in 1..(IF Len(ns) >= 3 THEN (Len(ns) - 3) \div 2 + 1 ELSE 0) |->
        [from |-> ns[2 * j - 1], relationship_detail |-> ns[2 * j], to |-> ns[2 * j + 1]]]

\* [i IN range(0, size(ns) - 3, 2) | {key1: ns[i], relationship_detail: ns[i + 1],
\* key2: ns[i + 2]}], key1 and key2 being from/to for outbound, to/from for inbound
Segments(ns, direction) ==
    [j \in 1..(IF Len(ns) >= 3 THEN (Len(ns) - 3) \div 2 + 1 ELSE 0) |->
        IF direction = "outbound"
        THEN [from |-> ns[2 * j - 1], relationship_detail |-> ns[2 * j], to |-> ns[2 * j + 1]]
        ELSE [to |-> ns[2 * j - 1], relationship_detail |-> ns[2 * j], from |-> ns[2 * j + 1]]]

\* the records of the query in the order the store yields them
InSomeOrder(S) == Arrangements(S, Cardinality(S))

\* params[f"1_{key}"] = value ... params[f"2_{key}"] = value: the merged
\* parameters of two fragments, each key under its fragment's prefix
PrefixMerge(params1, params2) ==
    [k \in ({"1_"} \X DOMAIN params1) \cup ({"2_"} \X DOMAIN params2) |->
        IF k[1] = "1_" THEN params1[k[2]] ELSE params2[k[2]]]

\* match.replace(f"${key}", f"$<prefix>{key}"): the fragment as the store
\* runs it, each placeholder reading the merged parameters under its prefix
BoundPrefixed(m, prefix, merged) ==
    [m EXCEPT !.params = [k \in DOMAIN m.params |-> merged[<<prefix, k>>]]]

directed_path_call(op, h1, h2, direction, max_tier) ==
    LET m1 == PathDB_build_entity_match(h1.id, h1.ticker, h1.short_name, h1.legal_name)
        m2 == PathDB_build_entity_match(h2.id, h2.ticker, h2.short_name, h2.legal_name)
    IN  /\ call' = [op |-> op, hints1 |-> h1, hints2 |-> h2,
                    direction |-> direction, max_tier |-> max_tier]
        /\ IF PathArgsInvalid(m1, m2, direction, max_tier) THEN
               /\ outcome' = "ValueError"
               /\ query' = NoQuery
               /\ result' = <<>>
               /\ paths' = {}
           ELSE
               /\ outcome' = "ok"
               /\ LET params == PrefixMerge(m1.params, m2.params)
                      e1 == BoundPrefixed(m1, "1_", params)
                      e2 == BoundPrefixed(m2, "2_", params)
                  IN  /\ query' = [error |-> "", clause |-> "pair", e1 |-> e1, e2 |-> e2]
                      /\ paths' = DirectedPaths(MatchNodes(e1), MatchNodes(e2),
                                                max_tier, direction)
               /\ CASE op = "has_directed_path" ->
                        \* RETURN count(path) > 0 AS has_path
                        result' = <<paths' # {}>>
                    [] op = "find_directed_paths" ->
                        \E rows \in InSomeOrder(paths') :
                            result' = [i \in 1..Len(rows) |->
                                        IF direction = "outbound" THEN EntityPath(rows[i])
                                        ELSE Reverse(EntityPath(rows[i]))]
                    [] OTHER ->
                        \E rows \in InSomeOrder(paths') :
                            result' = [i \in 1..Len(rows) |->
                                        IF direction = "outbound" THEN Segments(rows[i], direction)
                                        ELSE Reverse(Segments(rows[i], direction))]
        /\ UNCHANGED <<edges, clientVars>>

has_directed_path(h1, h2, direction, max_tier) ==
    directed_path_call("has_directed_path", h1, h2, direction, max_tier)

find_directed_paths(h1, h2, direction, max_tier) ==
    directed_path_call("find_directed_paths", h1, h2, direction, max_tier)

find_directed_paths_with_relationship_details(h1, h2, direction, max_tier) ==
    directed_path_call("find_directed_paths_with_relationship_details", h1, h2, direction, max_tier)

\* Hints for the first entity: E1 by id, the id E2 and P1 share, E3 by id, no hint
FirstHints ==
    { Hints(<<"1">>, None, None, None), Hints(<<"2">>, None, None, None),
      Hints(<<"3">>, None, None, None), Hints(None, <<" ">>, None, None) }

\* Hints for the second entity: E2 (and P1) by id, E3 by id, E1 by id, the
\* RelationshipDetail R1 by id
SecondHints ==
    { Hints(<<"2">>, None, None, None), Hints(<<"3">>, None, None, None),
      Hints(<<"1">>, None, None, None), Hints(<<"7">>, None, None, None) }

\* The arguments tried: every valid combination, and one invalid argument at a time
PathArgs ==
    { a \in [hints1 : FirstHints, hints2 : SecondHints,
             direction : {"outbound", "inbound", NoDirection}, max_tier : 0..MaxTier] :
        LET bad == {x \in {<<"hint", a.hints1.id = None>>,
                           <<"direction", a.direction = NoDirection>>,
                           <<"tier", a.max_tier < 1>>} : x[2]}
        IN  \/ bad = {}
            \/ /\ Cardinality(bad) = 1
               /\ a.hints2 = Hints(<<"2">>, None, None, None)
               /\ a.direction # "inbound"
               /\ a.max_tier <= 1 }

HasDirectedPath ==
    /\ outcome = "idle"
    /\ \E a \in PathArgs : has_directed_path(a.hints1, a.hints2, a.direction, a.max_tier)

FindDirectedPaths ==
    /\ outcome = "idle"
    /\ \E a \in PathArgs : find_directed_paths(a.hints1, a.hints2, a.direction, a.max_tier)

FindDirectedPathsWithRelationshipDetails ==
    /\ outcome = "idle"
    /\ \E a \in PathArgs :
           find_directed_paths_with_relationship_details(a.hints1, a.hints2, a.direction, a.max_tier)

NextGraph ==
    \/ FindConnectedEntities
    \/ HasDirectedPath
    \/ FindDirectedPaths
    \/ FindDirectedPathsWithRelationshipDetails
    \/ Respond

SpecGraph == InitGraph /\ [][NextGraph]_vars

---------------------------------------------------------------------------
(* Neo4jClient and the two call layers.  The tool layer calls an operation *)
(* on the shared client of mcp_instance, which connects when its first     *)
(* session is asked for; a CLI command makes a client of its own and runs  *)
(* the operation inside "with client:".                                    *)

\* isinstance(x, (int, float)): a value of the model carries its Python type
IsNumber(x) == x = "number"

\* the checks find_entity_by_relationship_embedding starts with
EmbeddingArgsInvalid(embedding, threshold, direction) ==
    \/ embedding = <<>>
    \/ \E i \in 1..Len(embedding) : ~IsNumber(embedding[i])
    \/ ~IsNumber(threshold)
    \/ direction \notin Directions

\* find_recent_insider_activites: the resolver, then the start_date check
InsiderArgsInvalid(m, start_date) ==
    \/ m.error # ""
    \/ start_date # None /\ norm(start_date) = None

\* query_entity: query_str = self._norm(query); if not query_str: raise
QueryArgsInvalid(q) == norm(q) = None

\* Whether the operation of call c raises ValueError before it asks for a session
ArgsInvalid(c) ==
    CASE c.op = "find_entity" ->
            EntityDB_build_entity_match(c.hints.id, c.hints.ticker,
                                        c.hints.short_name, c.hints.legal_name).error # ""
      [] c.op = "query_entity" -> QueryArgsInvalid(c.query)
      [] c.op = "find_connected_entities" ->
            ConnectedArgsInvalid(
                NeighbourhoodDB_build_entity_match(c.hints.id, c.hints.ticker,
                                                   c.hints.short_name, c.hints.legal_name),
                c.min_tier, c.max_tier, c.direction)
      [] c.op = "has_directed_path" ->
            PathArgsInvalid(
                PathDB_build_entity_match(c.hints1.id, c.hints1.ticker,
                                          c.hints1.short_name, c.hints1.legal_name),
                PathDB_build_entity_match(c.hints2.id, c.hints2.ticker,
                                          c.hints2.short_name, c.hints2.legal_name),
                c.direction, c.max_tier)
      [] c.op = "find_recent_insider_activites" ->
            InsiderArgsInvalid(
                EntityDB_build_entity_match(c.hints.id, c.hints.ticker,
                                            c.hints.short_name, c.hints.legal_name),
                c.start_date)
      [] OTHER -> EmbeddingArgsInvalid(c.embedding, c.threshold, c.direction)

\* Hints tried: E1 by id, a blank id, blank text only, nothing
ClientHints ==
    { Hints(<<"1">>, None, None, None), Hints(<<" ">>, None, None, None),
      Hints(None, <<" ">>, <<>>, None), Hints(None, None, None, None) }

Layers == {"tool", "cli"}

\* The calls tried, each through the layers that offer the operation
ClientCalls ==
    {[op |-> "find_entity", via |-> v, hints |-> h] : v \in Layers, h \in ClientHints}
    \cup {[op |-> "query_entity", via |-> "tool", query |-> q] : q \in {<<"a">>, <<" ">>, <<>>}}
    \cup [op : {"find_connected_entities"}, via : Layers,
          hints : {Hints(<<"1">>, None, None, None), Hints(None, None, None, None)},
          min_tier : (-1)..1, max_tier : 0..1,
          direction : {NoDirection, "outbound", "sideways"}]
    \cup [op : {"has_directed_path"}, via : {"tool"},
          hints1 : {Hints(<<"1">>, None, None, None), Hints(None, None, None, None)},
          hints2 : {Hints(<<"2">>, None, None, None)},
          direction : {NoDirection, "outbound"}, max_tier : 0..1]
    \cup [op : {"find_recent_insider_activites"}, via : {"cli"},
          hints : {Hints(<<"1">>, None, None, None), Hints(None, None, None, None)},
          start_date : {None, <<" ">>, <<"1">>}]
    \cup [op : {"find_entity_by_relationship_embedding"}, via : Layers,
          embedding : {<<>>, <<"number">>, <<"number", "text">>},
          threshold : {"number", "text"}, direction : {NoDirection, "sideways"}]
    \cup [op : {"find_paths_between_entities"}, via : {"cli"},
          hints1 : {Hints(<<"1">>, None, None, None)},
          hints2 : {Hints(<<"2">>, None, None, None)},
          direction : {NoDirection, "outbound"}, max_tier : 0..1, max_paths : 0..1]

\* The methods the DB classes define, among those the tools and commands call
Methods ==
    { "find_entity", "query_entity", "find_entity_by_relationship_embedding",
      "find_connected_entities", "has_directed_path", "find_recent_insider_activites" }

\* where a call goes when its operation has returned or raised: a CLI
\* command leaves its "with client:" block, a tool call is over
Unwind(via) == IF via = "cli" THEN "exit" ELSE "idle"

\* a tool is called: it calls the operation on the shared client
ToolCall ==
    /\ pc = "idle"
    /\ outcome = "idle"
    /\ \E c \in ClientCalls :
          /\ c.via = "tool"
          /\ call' = c
    /\ pc' = "validate"
    /\ trips' = <<>>
    /\ UNCHANGED <<edges, outcome, query, result, paths, driver, sessions, config, drivers>>

\* a CLI command starts: client = Neo4jClient(config), then "with client:"
CliCommand ==
    /\ pc = "idle"
    /\ outcome = "idle"
    /\ \E c \in ClientCalls :
          /\ c.via = "cli"
          /\ call' = c
    /\ pc' = "enter"
    /\ trips' = <<>>
    /\ UNCHANGED <<edges, outcome, query, result, paths, driver, sessions, config, drivers>>

\* Neo4jClient.__enter__: connect() creates the driver and verifies
\* connectivity at once; on failure it drops the driver and raises
Enter ==
    /\ pc = "enter"
    /\ trips' = Append(trips, "verify_connectivity")
    /\ \E reachable \in BOOLEAN :
          IF reachable
          THEN /\ driver' = [driver EXCEPT !.cli = "open"]
               /\ pc' = "validate"
               /\ UNCHANGED outcome
          ELSE /\ outcome' = "ConnectionError"
               /\ pc' = "idle"
               /\ UNCHANGED driver
    /\ UNCHANGED <<edges, call, query, result, paths, sessions, config, drivers>>

\* the call of the operation up to "with self.client.session()": the method
\* lookup, the operation's own checks and its resolver
Validate ==
    /\ pc = "validate"
    /\ IF call.op \notin Methods
       THEN \* the attribute lookup of a method the class does not define
            /\ outcome' = "AttributeError"
            /\ pc' = Unwind(call.via)
       ELSE IF ArgsInvalid(call)
       THEN /\ outcome' = "ValueError"
            /\ pc' = Unwind(call.via)
       ELSE /\ pc' = "session"
            /\ UNCHANGED outcome
    /\ UNCHANGED <<edges, call, query, result, paths, driver, sessions, trips, config, drivers>>

\* Neo4jClient.session up to its yield: connect() if there is no driver yet,
\* then driver.session()
OpenSession ==
    /\ pc = "session"
    /\ IF driver[call.via] = "none"
       THEN \E reachable \in BOOLEAN :
              IF reachable
              THEN /\ driver' = [driver EXCEPT ![call.via] = "open"]
                   /\ trips' = trips \o <<"verify_connectivity", "session">>
                   /\ sessions' = sessions + 1
                   /\ pc' = "run"
                   /\ UNCHANGED outcome
              ELSE /\ trips' = Append(trips, "verify_connectivity")
                   /\ outcome' = "ConnectionError"
                   /\ pc' = Unwind(call.via)
                   /\ UNCHANGED <<driver, sessions>>
       ELSE /\ trips' = Append(trips, "session")
            /\ sessions' = sessions + 1
            /\ pc' = "run"
            /\ UNCHANGED <<driver, outcome>>
    /\ UNCHANGED <<edges, call, query, result, paths, config, drivers>>

\* session.run(cypher, **params) and the reading of its records; the records
\* themselves are those SpecResolve and SpecGraph compute
Run ==
    /\ pc = "run"
    /\ trips' = Append(trips, "run")
    /\ \E ok \in BOOLEAN : outcome' = IF ok THEN "ok" ELSE "StoreError"
    /\ pc' = "close"
    /\ UNCHANGED <<edges, call, query, result, paths, driver, sessions, config, drivers>>

CloseSession_OnSuccess ==
    /\ pc = "close"
    /\ sessions' = IF outcome = "ok" THEN sessions - 1 ELSE sessions
    /\ pc' = Unwind(call.via)
    /\ UNCHANGED <<edges, call, outcome, query, result, paths, driver, trips,
                   config, drivers>>

\* Neo4jClient.session after its yield: finally session.close()
CloseSession ==
    /\ pc = "close"
    /\ sessions' = sessions - 1
    /\ pc' = Unwind(call.via)
    /\ UNCHANGED <<edges, call, outcome, query, result, paths, driver, trips, config, drivers>>

\* Neo4jClient.__exit__: close()
Exit ==
    /\ pc = "exit"
    /\ driver' = [driver EXCEPT !.cli = "none"]
    /\ pc' = "idle"
    /\ UNCHANGED <<edges, call, outcome, query, result, paths, sessions, trips, config, drivers>>

NextClient ==
    \/ ToolCall
    \/ CliCommand
    \/ Enter
    \/ Validate
    \/ OpenSession
    \/ Run
    \/ CloseSession
    \/ Exit
    \/ Respond

SpecClient == Init /\ [][NextClient]_vars

---------------------------------------------------------------------------
(* Claims on entity resolution and find_entity, checked under SpecResolve *)

IsFindEntity == call.op = "find_entity"

\* The match an id lookup must send: the id condition and the id parameter only
IdOnlyMatch(id) ==
    [error |-> "", clause |-> "id", entityLabel |-> FALSE, params |-> [id |-> id]]

NodesWithId(id) == {n \in Nodes : Props(n).id = id}

\* C1: with a non-null id hint, the match condition, its parameters and the
\* possible results of find_entity are determined by the id alone: they are
\* the same for every value of the ticker, short_name and legal_name hints.
C1_PriorityDeterminism ==
    (IsFindEntity /\ call.id # None) =>
        /\ outcome = "ok"
        /\ query = IdOnlyMatch(call.id)
        /\ DOMAIN query.params = {"id"}
        /\ EntityDB_build_entity_match(call.id, None, None, None) = query
        /\ result \in Limited(NodesWithId(call.id), 1)

\* C1 witness: an id lookup made with ticker and name hints that would match
\* other entities
C1_Witness ==
    /\ IsFindEntity
    /\ call.id = <<"2">>
    /\ norm(call.ticker) = <<"a", "B">>
    /\ norm(call.short_name) = <<"B">>
    /\ result = <<"E2">>

\* C2: every text hint, id included, is trimmed and a blank value counts as
\* absent: the call resolves as the normalised hints would resolve.
C2_NormalizesEveryHint ==
    IsFindEntity =>
        LET expected == MatchSpec(norm(call.id), norm(call.ticker),
                                  norm(call.short_name), norm(call.legal_name))
        IN  /\ (outcome = "ValueError") <=> (expected.error # "")
            /\ outcome = "ok" => query = expected

\* The entities a name hint h selects: a case-insensitive substring of either
\* name field
NameHit(n, h) ==
    /\ h # None
    /\ \/ CONTAINS(toLower(Props(n).short_name), toLower(h))
       \/ CONTAINS(toLower(Props(n).legal_name), toLower(h))

NameMatches(short_name, legal_name) ==
    {n \in Entities : NameHit(n, norm(short_name)) \/ NameHit(n, norm(legal_name))}

ByName == IsFindEntity /\ call.id = None /\ norm(call.ticker) = None /\ outcome = "ok"

\* C3: with id and ticker absent, find_entity returns entities that match the
\* short_name hint or the legal_name hint in either name field, case
\* insensitively, and leaves none of them out unless limit cuts the list.
C3_NameResolution ==
    ByName =>
        LET hits == NameMatches(call.short_name, call.legal_name)
        IN  /\ Range(result) \subseteq hits
            /\ Len(result) = Min(call.limit, Cardinality(hits))
            /\ Cardinality(Range(result)) = Len(result)

\* C3 witness: the short_name hint "aa" finds E3 through its legal_name "Aa",
\* while the legal_name hint given with it matches nothing
C3_Witness ==
    /\ ByName
    /\ call.short_name = <<"a", "a">>
    /\ call.legal_name = <<"B", "B">>
    /\ result = <<"E3">>

NoUsableHint ==
    /\ norm(call.id) = None
    /\ norm(call.ticker) = None
    /\ norm(call.short_name) = None
    /\ norm(call.legal_name) = None

\* C4: find_entity fails with ValueError exactly when no hint is usable (each
\* of id, ticker, short_name, legal_name is absent or blank), and otherwise
\* succeeds, with an empty list when nothing matches.
C4_EmptyVersusError ==
    IsFindEntity =>
        /\ outcome \in {"ok", "ValueError"}
        /\ (outcome = "ValueError") <=> NoUsableHint
        /\ outcome = "ValueError" => result = <<>> /\ query = NoQuery
        /\ outcome = "ok" => query # NoQuery

TickerHit(n, t) ==
    /\ n \in Entities
    /\ Props(n).ticker # None
    /\ toLower(Props(n).ticker) = toLower(t)

\* C6: an id lookup returns at most one record whatever limit is; any other
\* lookup returns at most limit records, each matching the ticker or the names.
C6_FindEntityLimit ==
    (IsFindEntity /\ outcome = "ok") =>
        /\ call.id # None => Len(result) <= 1
        /\ call.id = None =>
              /\ Len(result) <= call.limit
              /\ \A i \in 1..Len(result) :
                    IF norm(call.ticker) # None
                    THEN TickerHit(result[i], norm(call.ticker))
                    ELSE result[i] \in NameMatches(call.short_name, call.legal_name)

\* C6 witness: two nodes carry the id, limit is above 1, one record comes back
C6_Witness ==
    /\ IsFindEntity
    /\ call.id = <<"2">>
    /\ call.limit > 1
    /\ Cardinality(NodesWithId(call.id)) = 2
    /\ Len(result) = 1

---------------------------------------------------------------------------
(* Claims on the neighbourhood and path queries, checked under SpecGraph *)

IsConnected == call.op = "find_connected_entities" /\ outcome = "ok"

\* The Entity nodes the hints of a find_connected_entities call stand for
StartEntities ==
    LET h == call.hints
    IN  IF h.id # None THEN Entities \cap NodesWithId(h.id)
        ELSE IF norm(h.ticker) # None THEN {n \in Entities : TickerHit(n, norm(h.ticker))}
        ELSE NameMatches(h.short_name, h.legal_name)

\* The entities one RelationshipDetail away from s: two raw relationships in
\* the direction d, through a RelationshipDetail, to another entity
OneHop(s, d) ==
    {e \in Entities \ {s} : \E r \in Details : Hop(s, r, d) /\ Hop(r, e, d)}

Returned == {result[i].entity : i \in 1..Len(result)}

TiersTo(s, e) == {TierOf(p) : p \in {q \in paths : q[1] = s /\ Last(q) = e}}

\* C8: an entity is returned only if its minimum tier over the simple
\* alternating paths from a start entity lies in [min_tier, max_tier], and
\* the tier reported for it is that minimum.
C8_MinimumTier ==
    IsConnected =>
        \A i \in 1..Len(result) :
            \E s \in StartEntities :
                /\ result[i].tier \in TiersTo(s, result[i].entity)
                /\ \A t \in TiersTo(s, result[i].entity) :
                      t >= call.min_tier /\ result[i].tier <= t

\* C9: no entity appears in two records, the records are in non-decreasing
\* tier order, and there are at most limit of them.
C9_DedupeSortCap ==
    IsConnected =>
        /\ \A i, j \in 1..Len(result) : i < j => result[i].entity # result[j].entity
        /\ \A i, j \in 1..Len(result) : i < j => result[i].tier <= result[j].tier
        /\ Len(result) <= call.limit

IsPathOp ==
    /\ call.op \in {"has_directed_path", "find_directed_paths",
                     "find_directed_paths_with_relationship_details"}
    /\ outcome = "ok"

\* C10: every path matched by a path operation or by find_connected_entities
\* has an Entity at every even index and a RelationshipDetail at every odd
\* index, starts and ends on an Entity and has at most 2 * max_tier
\* relationships.
C10_Alternation ==
    (IsPathOp \/ IsConnected) =>
        \A p \in paths :
            /\ \A i \in 0..(Len(p) - 1) :
                  Label(p[i + 1]) = (IF i % 2 = 0 THEN "Entity" ELSE "RelationshipDetail")
            /\ Label(p[1]) = "Entity"
            /\ Label(p[Len(p)]) = "Entity"
            /\ Len(p) - 1 <= 2 * call.max_tier

---------------------------------------------------------------------------
(* Claims on the order of validation and store access, checked under       *)
(* SpecClient                                                              *)

\* No hint identifies an entity: id is null and the text hints are null or blank
NoIdentifyingHint(h) ==
    /\ h.id = None
    /\ \A t \in {h.ticker, h.short_name, h.legal_name} : t = None \/ strip(t) = <<>>

\* The invalid arguments of the call in flight, operation by operation
BadArguments ==
    CASE call.op = "find_entity" -> NoIdentifyingHint(call.hints)
      [] call.op = "query_entity" -> strip(call.query) = <<>>
      [] call.op = "find_connected_entities" ->
            \/ NoIdentifyingHint(call.hints)
            \/ call.min_tier < 0
            \/ call.max_tier < call.min_tier
            \/ call.direction \notin {NoDirection, "inbound", "outbound"}
      [] call.op = "has_directed_path" ->
            \/ NoIdentifyingHint(call.hints1)
            \/ NoIdentifyingHint(call.hints2)
            \/ call.direction \notin {"inbound", "outbound"}
            \/ call.max_tier < 1
      [] call.op = "find_recent_insider_activites" ->
            \/ NoIdentifyingHint(call.hints)
            \/ call.start_date # None /\ strip(call.start_date) = <<>>
      [] call.op = "find_entity_by_relationship_embedding" ->
            \/ Len(call.embedding) = 0
            \/ "text" \in Range(call.embedding)
            \/ call.threshold = "text"
            \/ call.direction \notin {NoDirection, "inbound", "outbound"}
      [] OTHER -> FALSE

---------------------------------------------------------------------------
(* Claims on the directed-path operations, checked under SpecGraph *)

\* The nodes a hint set stands for
Resolved(h) ==
    IF h.id # None THEN NodesWithId(h.id)
    ELSE IF norm(h.ticker) # None THEN {n \in Entities : TickerHit(n, norm(h.ticker))}
    ELSE NameMatches(h.short_name, h.legal_name)

IsOp(op) == call.op = op /\ outcome = "ok"

\* C11: no path matched by has_directed_path, find_directed_paths or
\* find_directed_paths_with_relationship_details visits a node twice, and no
\* returned entity sequence names an entity twice.
C11_SimplePaths ==
    /\ IsPathOp => \A p \in paths : Cardinality(Range(p)) = Len(p)
    /\ IsOp("find_directed_paths") =>
          \A i \in 1..Len(result) : Cardinality(Range(result[i])) = Len(result[i])

\* the simple alternating paths between entities a and b of at most 2 * k
\* relationships, each oriented as the direction says
SimpleAlternatingPaths(a, b, k, direction) ==
    {p \in VarLengthPaths({a}, 2 * k, direction, TRUE) :
        /\ Last(p) = b
        /\ \A i \in 1..Len(p) :
              Label(p[i]) = (IF i % 2 = 1 THEN "Entity" ELSE "RelationshipDetail")}

\* C12: has_directed_path returns true iff a simple alternating path of at
\* most 2 * max_tier relationships leads from entity1 to entity2 in the
\* direction, and false otherwise: also when both are the same node and when
\* a hint set resolves to no node.
C12_HasDirectedPathIff ==
    IsOp("has_directed_path") =>
        result = << \E a \in Resolved(call.hints1), b \in Resolved(call.hints2) :
                      SimpleAlternatingPaths(a, b, call.max_tier, call.direction) # {} >>

RECURSIVE Downstream(_, _)
\* the nodes reached from the nodes S by following one or more raw
\* relationships forward, n at most
Downstream(S, n) ==
    IF n = 0 THEN {}
    ELSE LET next == {v \in Nodes : \E u \in S : <<u, v>> \in edges}
         IN  next \cup Downstream(next, n - 1)

\* the graph A -> RD -> B with no other relationship
OneWay == {<<"E1", "R1">>, <<"R1", "E2">>}

\* C13: has_directed_path is true only if entity2 is downstream of entity1
\* (outbound) or entity1 downstream of entity2 (inbound); on the graph
\* E1 -> R1 -> E2 it is true for (E1, E2, outbound) and (E2, E1, inbound) and
\* false for the swapped and the opposite-direction queries.
C13_DirectionalNonSymmetry ==
    IsOp("has_directed_path") =>
        LET from == IF call.direction = "outbound" THEN call.hints1 ELSE call.hints2
            to == IF call.direction = "outbound" THEN call.hints2 ELSE call.hints1
        IN  /\ result[1] =>
                  Resolved(to) \cap Downstream(Resolved(from), Cardinality(Nodes)) # {}
            /\ (edges = OneWay /\ call.hints2.id \in {<<"1">>, <<"2">>}) =>
                  result[1] = ("E1" \in Resolved(from) /\ "E2" \in Resolved(to))

\* C13 witness: on E1 -> R1 -> E2 the swapped query has answered false
C13_Witness ==
    /\ IsOp("has_directed_path")
    /\ edges = OneWay
    /\ call.hints1.id = <<"2">> /\ call.hints2.id = <<"1">>
    /\ call.direction = "outbound"
    /\ result = <<FALSE>>

\* the second hint set of the call names no RelationshipDetail
EntityTwoIsEntity == Resolved(call.hints2) \cap Details = {}

Feeds(a, b) == \E r \in Details : <<a, r>> \in edges /\ <<r, b>> \in edges

---------------------------------------------------------------------------
(* Claim on the find-paths-between command, checked under SpecClient *)

\* C16: the find-paths-between-entities command reaches an operation that
\* fails with ValueError when max_tier < 1 or max_paths < 1 and otherwise
\* returns at most max_paths paths.
C16_FindPathsBetween ==
    (/\ call.op = "find_paths_between_entities"
     /\ pc = "idle"
     /\ outcome \notin {"idle", "ConnectionError"}) =>
        IF call.max_tier < 1 \/ call.max_paths < 1
        THEN outcome = "ValueError"
        ELSE outcome \in {"ok", "StoreError"} /\ Len(result) <= call.max_paths

---------------------------------------------------------------------------
(* EntityDB: search of entities by their relationship details *)

\* The stored properties of the RelationshipDetail nodes that the searches
\* and the relationship queries read; created_at is a day number
DetailProps(n) ==
    CASE n = "R1" -> [description |-> <<"a", " ", "B">>, embedding |-> <<3, 4>>, created_at |-> 1,
                      relationship_type |-> <<"o", "w", "n", "e", "r">>]
      [] n = "R2" -> [description |-> None, embedding |-> <<4, 3>>, created_at |-> 2,
                      relationship_type |-> <<"s", "u", "b", "s", "i", "d", "i", "a", "r", "y">>]
      [] n = "R3" -> [description |-> <<"b">>, embedding |-> None, created_at |-> 2,
                      relationship_type |-> <<"s", "a", "l", "e", "s", "_", "a", "g", "e", "n", "t">>]
      [] n = "R4" -> [description |-> None, embedding |-> None, created_at |-> 3,
                      relationship_type |-> <<"a", "w", "a", "r", "d", "e", "d", "_", "t", "o">>]

\* Cypher null, as a row value
Null == "null"

\* OPTIONAL MATCH (src:Entity)-[]->(rd)-[]->(dst:Entity): the <<src, dst>>
\* pairs around rd, or one row of nulls when the whole pattern has no match
AroundDetail(rd) ==
    LET found == {p \in Entities \X Entities :
                    <<p[1], rd>> \in edges /\ <<rd, p[2]>> \in edges}
    IN  IF found = {} THEN {<<Null, Null>>} ELSE found

\* WITH [...] AS entities UNWIND entities AS entity RETURN DISTINCT entity:
\* both OPTIONAL MATCHes bind the same pairs, the direction picks the side
RelationshipEntities(rds, direction) ==
    UNION {{p[1] : p \in IF direction # "inbound" THEN AroundDetail(rd) ELSE {}}
             \cup {p[2] : p \in IF direction # "outbound" THEN AroundDetail(rd) ELSE {}}
           : rd \in rds}

\* the query, LIMIT $limit, and the projection {**record["entity"]} of each
\* record, which raises TypeError on a record whose entity is null
relationship_search(c, invalid, rds) ==
    /\ call' = c
    /\ query' = NoQuery
    /\ IF invalid THEN
           /\ outcome' = "ValueError"
           /\ paths' = {}
           /\ result' = <<>>
       ELSE
           /\ paths' = {<<rd>> : rd \in rds}
           /\ \E rows \in Limited(RelationshipEntities(rds, c.direction), c.limit) :
                 IF Null \in Range(rows)
                 THEN outcome' = "TypeError" /\ result' = <<>>
                 ELSE outcome' = "ok" /\ result' = rows
    /\ UNCHANGED <<edges, clientVars>>

\* MATCH (rd:RelationshipDetail) WHERE description or relationship_type
\* contains the query, case-insensitively
QueryMatches(query_str) ==
    {rd \in Details :
        \/ CONTAINS(toLower(DetailProps(rd).description), toLower(query_str))
        \/ CONTAINS(toLower(DetailProps(rd).relationship_type), toLower(query_str))}

find_entity_by_relationship_query(q, direction, limit) ==
    LET query_str == norm(q)
    IN  relationship_search(
            [op |-> "find_entity_by_relationship_query", query |-> q,
             direction |-> direction, limit |-> limit],
            query_str = None \/ direction \notin Directions,
            IF query_str = None THEN {} ELSE QueryMatches(query_str))

SearchQueries == {<<>>, <<" ">>, <<"a">>, <<"b">>, <<"B", " ">>, <<"a", "b">>}
SearchDirections == Directions \cup {"sideways"}

FindEntityByRelationshipQuery ==
    /\ outcome = "idle"
    /\ \E q \in SearchQueries, direction \in SearchDirections, limit \in Limits :
           find_entity_by_relationship_query(q, direction, limit)

RECURSIVE Dot(_, _)
\* the inner product of two vectors of one length
Dot(a, b) == IF a = <<>> THEN 0 ELSE Head(a) * Head(b) + Dot(Tail(a), Tail(b))

\* the length of a vector; the vectors of the model have whole lengths
Length(a) == CHOOSE r \in 0..Dot(a, a) : r * r = Dot(a, a)

\* gds.similarity.cosine, as the exact fraction num / den
cosine(a, b) == [num |-> Dot(a, b), den |-> Length(a) * Length(b)]

\* AtLeast with the comparison strict
AtLeast_Strict(similarity, threshold) ==
    similarity.num * threshold.den > threshold.num * similarity.den

\* similarity >= $threshold, on fractions with positive denominators
AtLeast(similarity, threshold) ==
    similarity.num * threshold.den >= threshold.num * similarity.den

\* MATCH (rd:RelationshipDetail) WHERE rd.embedding IS NOT NULL
\* WITH rd, cosine(rd.embedding, $embedding) AS similarity WHERE similarity >= $threshold
EmbeddingMatches(embedding, threshold) ==
    {rd \in Details :
        /\ DetailProps(rd).embedding # None
        /\ AtLeast(cosine(DetailProps(rd).embedding, embedding), threshold)}

find_entity_by_relationship_embedding(embedding, threshold, direction, limit) ==
    relationship_search(
        [op |-> "find_entity_by_relationship_embedding", embedding |-> embedding,
         threshold |-> threshold, direction |-> direction, limit |-> limit],
        embedding = <<>> \/ direction \notin Directions,
        IF embedding = <<>> THEN {} ELSE EmbeddingMatches(embedding, threshold))

\* what the embedding collaborator returns for the texts tried, and an empty list
Embeddings == {<<>>, <<1, 0>>, <<0, 1>>, <<3, 4>>}
Thresholds ==
    {[num |-> 3, den |-> 5], [num |-> 61, den |-> 100], [num |-> 4, den |-> 5],
     [num |-> 1, den |-> 1]}

FindEntityByRelationshipEmbedding ==
    /\ outcome = "idle"
    /\ \E embedding \in Embeddings, threshold \in Thresholds,
          direction \in SearchDirections, limit \in Limits :
           find_entity_by_relationship_embedding(embedding, threshold, direction, limit)

\* The store of the searches: any relationships among the candidates that
\* touch a RelationshipDetail, and the award of the agency E4 to E3
InitSearch ==
    /\ edges \in {S \cup {<<"E4", "R4">>, <<"R4", "E3">>} :
                    S \in SUBSET (CandidateEdges \ {<<"E1", "E3">>})}
    /\ call = NoCall
    /\ outcome = "idle"
    /\ query = NoQuery
    /\ result = <<>>
    /\ paths = {}
    /\ driver = NoDriver
    /\ sessions = 0
    /\ trips = <<>>
    /\ pc = "idle"
    /\ config = Configured
    /\ drivers = <<>>

NextSearch ==
    \/ FindEntityByRelationshipQuery
    \/ FindEntityByRelationshipEmbedding
    \/ Respond

SpecSearch == InitSearch /\ [][NextSearch]_vars

---------------------------------------------------------------------------
(* Claims on the relationship searches, checked under SpecSearch *)

QueryHit(rd) ==
    LET q == toLower(norm(call.query))
    IN  \/ CONTAINS(toLower(DetailProps(rd).description), q)
        \/ CONTAINS(toLower(DetailProps(rd).relationship_type), q)

SourceSide == {e \in Entities : \E rd \in Details : QueryHit(rd) /\ <<e, rd>> \in edges}
DestinationSide == {e \in Entities : \E rd \in Details : QueryHit(rd) /\ <<rd, e>> \in edges}

SidesAsked ==
    (IF call.direction # "inbound" THEN SourceSide ELSE {})
        \cup (IF call.direction # "outbound" THEN DestinationSide ELSE {})

\* every RelationshipDetail the query hits stands between two nodes of the store
HitDetailsWhole ==
    \A rd \in Details : QueryHit(rd) =>
        /\ \E n \in Nodes : <<n, rd>> \in edges
        /\ \E n \in Nodes : <<rd, n>> \in edges

\* C17: find_entity_by_relationship_query returns the distinct entities on
\* the source side (outbound), the destination side (inbound) or either side
\* (None) of the RelationshipDetails whose description or relationship_type
\* contains the query case-insensitively, each once, at most limit of them.
C17_RelationshipQuerySides ==
    (/\ call.op = "find_entity_by_relationship_query"
     /\ norm(call.query) # None
     /\ call.direction \in Directions
     /\ HitDetailsWhole) =>
        /\ outcome = "ok"
        /\ result \in Limited(SidesAsked, call.limit)

IsEmbeddingSearch ==
    call.op = "find_entity_by_relationship_embedding" /\ outcome \in {"ok", "TypeError"}

\* similarity of rd to the supplied vector >= threshold, cross-multiplied
SimilarEnough(rd) ==
    LET stored == DetailProps(rd).embedding
    IN  Dot(stored, call.embedding) * call.threshold.den
            >= call.threshold.num * Length(stored) * Length(call.embedding)

---------------------------------------------------------------------------
(* RelationshipDetailsDB: the relationship details between two entities *)

\* e1.short_name + " -> " + e2.short_name; null when either name is null
DirectionText(a, b) ==
    IF Props(a).short_name = None \/ Props(b).short_name = None THEN None
    ELSE Props(a).short_name \o <<" ", "-", ">", " ">> \o Props(b).short_name

\* (a)-[]->(rd:RelationshipDetail)-[]->(b)
Between(a, b) == {rd \in Details : <<a, rd>> \in edges /\ <<rd, b>> \in edges}

\* DetailRows with MATCH for OPTIONAL MATCH: a pair needs both orientations
DetailRows_BothNeeded(e1, e2) ==
    IF Between(e1, e2) = {} \/ Between(e2, e1) = {} THEN {}
    ELSE {[rd |-> rd, dir |-> DirectionText(e1, e2), of |-> <<e1, e2, "outbound_rels">>] :
             rd \in Between(e1, e2)}
           \cup {[rd |-> rd, dir |-> DirectionText(e2, e1), of |-> <<e1, e2, "inbound_rels">>] :
                    rd \in Between(e2, e1)}

\* The rows of one (e1, e2) pair after the two OPTIONAL MATCHes, the two
\* collect(DISTINCT ...) and UNWIND rel.rd, which drops the maps whose rd is null
DetailRows(e1, e2) ==
    {[rd |-> rd, dir |-> DirectionText(e1, e2), of |-> <<e1, e2, "outbound_rels">>] :
        rd \in Between(e1, e2)}
      \cup {[rd |-> rd, dir |-> DirectionText(e2, e1), of |-> <<e1, e2, "inbound_rels">>] :
               rd \in Between(e2, e1)}

RECURSIVE TopDesc(_, _)
\* ORDER BY rd.created_at DESC LIMIT k: rows of equal created_at in any order
TopDesc(rows, k) ==
    IF k <= 0 \/ rows = {} THEN {<<>>}
    ELSE LET newest == {r \in rows : \A q \in rows :
                          DetailProps(q.rd).created_at <= DetailProps(r.rd).created_at}
         IN  UNION {{<<r>> \o t : t \in TopDesc(rows \ {r}, k - 1)} : r \in newest}

\* RETURN rd.id, rd.description, rd.relationship_type, rd.created_at, rel.dir
DetailRecord(row) ==
    [id |-> Props(row.rd).id, description |-> DetailProps(row.rd).description,
     relationship_type |-> DetailProps(row.rd).relationship_type,
     created_at |-> DetailProps(row.rd).created_at, relationship_direction |-> row.dir]

find_relationship_details(hints1, hints2, limit) ==
    LET m1 == EntityDB_build_entity_match(hints1.id, hints1.ticker,
                                          hints1.short_name, hints1.legal_name)
        m2 == EntityDB_build_entity_match(hints2.id, hints2.ticker,
                                          hints2.short_name, hints2.legal_name)
    IN  /\ call' = [op |-> "find_relationship_details", hints1 |-> hints1,
                    hints2 |-> hints2, limit |-> limit]
        /\ paths' = {}
        /\ IF m1.error # "" \/ m2.error # "" THEN
               /\ outcome' = "ValueError"
               /\ query' = NoQuery
               /\ result' = <<>>
           ELSE
               LET params == PrefixMerge(m1.params, m2.params)
                   b1 == BoundPrefixed(m1, "1_", params)
                   b2 == BoundPrefixed(m2, "2_", params)
               IN  /\ outcome' = "ok"
                   /\ query' = [error |-> "", clause |-> "pair", e1 |-> b1, e2 |-> b2]
                   /\ \E rows \in TopDesc(UNION {DetailRows(e1, e2) :
                                    e1 \in MatchNodes(b1), e2 \in MatchNodes(b2)}, limit) :
                         result' = [i \in 1..Len(rows) |-> DetailRecord(rows[i])]
        /\ UNCHANGED <<edges, clientVars>>

\* Hints of the relationship queries: E1, E3, E2 (and P1) by id, E2 by its
\* short name, E1, E2 and E3 by a common part of their names, and no hint;
\* the second entity of a pair is tried with four of them
DetailHints ==
    { Hints(<<"1">>, None, None, None), Hints(<<"3">>, None, None, None),
      Hints(<<"2">>, None, None, None), Hints(None, None, <<"b", "a">>, None),
      Hints(None, None, <<"a">>, None), Hints(None, None, None, None) }

SecondDetailHints ==
    { Hints(<<"1">>, None, None, None), Hints(<<"2">>, None, None, None),
      Hints(None, None, <<"a">>, None), Hints(None, None, None, None) }

FindRelationshipDetails ==
    /\ outcome = "idle"
    /\ \E hints1 \in DetailHints, hints2 \in SecondDetailHints, limit \in Limits :
           find_relationship_details(hints1, hints2, limit)

\* Relationship types for affiliate entities
relationship_types ==
    { <<"s", "u", "b", "s", "i", "d", "i", "a", "r", "y">>,
      <<"p", "a", "r", "e", "n", "t", "_", "c", "o", "m", "p", "a", "n", "y">>,
      <<"e", "q", "u", "i", "t", "y", "_", "a", "c", "q", "u", "i", "s", "i", "t", "i", "o", "n">>,
      <<"o", "w", "n", "e", "r", "s", "h", "i", "p">>,
      <<"d", "i", "v", "i", "s", "i", "o", "n", "_", "o", "f">>,
      <<"a", "s", "s", "e", "t", "_", "a", "c", "q", "u", "i", "s", "i", "t", "i", "o", "n">>,
      <<"a", "c", "q", "u", "i", "s", "i", "t", "i", "o", "n", "_", "o", "f", "_", "e", "q", "u", "i", "t", "y">>,
      <<"a", "s", "s", "e", "t", "_", "p", "u", "r", "c", "h", "a", "s", "e">>,
      <<"a", "c", "q", "u", "i", "s", "i", "t", "i", "o", "n">>,
      <<"a", "f", "f", "i", "l", "i", "a", "t", "e">>,
      <<"a", "f", "f", "i", "l", "i", "a", "t", "e", "_", "o", "f">>,
      <<"o", "w", "n", "e", "r">>,
      <<"o", "w", "n", "e", "r", "s", "h", "i", "p", "_", "i", "n", "t", "e", "r", "e", "s", "t">>,
      <<"e", "q", "u", "i", "t", "y", "_", "h", "o", "l", "d", "e", "r">>,
      <<"p", "a", "r", "e", "n", "t">>,
      <<"s", "o", "l", "d", "_", "a", "s", "s", "e", "t", "s", "_", "t", "o">>,
      <<"a", "c", "q", "u", "i", "r", "e", "r">> }

awarded_to == <<"a", "w", "a", "r", "d", "e", "d", "_", "t", "o">>

\* Affiliates reaching one hop further, through the affiliates' own links
Affiliates_Transitive(start) ==
    LET near(s) == {a \in Entities : \E rd \in Details :
                      /\ Hop(s, rd, NoDirection) /\ Hop(rd, a, NoDirection)
                      /\ a # s \/ (<<s, rd>> \in edges /\ <<rd, s>> \in edges)
                      /\ DetailProps(rd).relationship_type \in relationship_types
                      /\ Props(a).entity_type = "company"
                      /\ Props(s).entity_type = "company"}
    IN  near(start) \cup UNION {near(a) : a \in near(start)}

\* OPTIONAL MATCH (start)-[]-(affiliate_rd:RelationshipDetail)-[]-(affiliate:Entity)
\* WHERE the type is listed and both ends are companies; the two
\* relationships of one match are different relationships
Affiliates(start) ==
    {a \in Entities : \E rd \in Details :
        /\ Hop(start, rd, NoDirection) /\ Hop(rd, a, NoDirection)
        /\ a # start \/ (<<start, rd>> \in edges /\ <<rd, start>> \in edges)
        /\ DetailProps(rd).relationship_type \in relationship_types
        /\ Props(a).entity_type = "company"
        /\ Props(start).entity_type = "company"}

\* COALESCE(n.legal_name, n.short_name, "")
NameOf(n) ==
    IF Props(n).legal_name # None THEN Props(n).legal_name
    ELSE IF Props(n).short_name # None THEN Props(n).short_name ELSE <<>>

\* MATCH (government_agency:Entity)-[]->(rd:RelationshipDetail)-[]->(entity)
\* WHERE rd.relationship_type = "awarded_to", for every entity of all_entities;
\* WITH DISTINCT rd, awarded_from, affiliate
AwardRows(starts) ==
    {[rd |-> t[2], awarded_from |-> NameOf(t[1]), affiliate |-> NameOf(t[3])] : t \in
        {t \in Entities \X Details \X Nodes :
            /\ <<t[1], t[2]>> \in edges /\ <<t[2], t[3]>> \in edges
            /\ DetailProps(t[2]).relationship_type = awarded_to
            /\ \E start \in starts : t[3] \in {start} \cup Affiliates(start)}}

\* RETURN rd.id, rd.description, awarded_from, affiliate as affiliate_entity
AwardRecord(row) ==
    [id |-> Props(row.rd).id, description |-> DetailProps(row.rd).description,
     awarded_from |-> row.awarded_from, affiliate_entity |-> row.affiliate]

find_government_awards(hints, limit) ==
    LET m == EntityDB_build_entity_match(hints.id, hints.ticker,
                                         hints.short_name, hints.legal_name)
    IN  /\ call' = [op |-> "find_government_awards", hints |-> hints, limit |-> limit]
        /\ query' = NoQuery
        /\ paths' = {}
        /\ IF m.error # "" THEN
               /\ outcome' = "ValueError"
               /\ result' = <<>>
           ELSE
               /\ outcome' = "ok"
               /\ \E rows \in TopDesc(AwardRows(MatchNodes(m)), limit) :
                     result' = [i \in 1..Len(rows) |-> AwardRecord(rows[i])]
        /\ UNCHANGED <<edges, clientVars>>

\* the hints of the relationship queries, and the agency E4 by id
AwardHints == DetailHints \cup {Hints(<<"4">>, None, None, None)}

FindGovernmentAwards ==
    /\ outcome = "idle"
    /\ \E hints \in AwardHints, limit \in Limits : find_government_awards(hints, limit)

\* The relationships the stores of the relationship queries choose among;
\* the agency E4 always stands behind the award R4
DetailEdges ==
    { <<"E1", "R1">>, <<"R1", "E2">>, <<"E2", "R2">>, <<"R2", "E1">>, <<"R2", "E3">>,
      <<"E1", "R3">>, <<"R3", "E3">>, <<"R1", "P1">>,
      <<"R4", "E1">>, <<"R4", "E2">>, <<"R4", "E3">>, <<"E4", "R2">> }

InitDetails ==
    /\ edges \in {S \cup {<<"E4", "R4">>} : S \in SUBSET DetailEdges}
    /\ call = NoCall
    /\ outcome = "idle"
    /\ query = NoQuery
    /\ result = <<>>
    /\ paths = {}
    /\ driver = NoDriver
    /\ sessions = 0
    /\ trips = <<>>
    /\ pc = "idle"
    /\ config = Configured
    /\ drivers = <<>>

NextDetails ==
    \/ FindRelationshipDetails
    \/ FindGovernmentAwards
    \/ Respond

SpecDetails == InitDetails /\ [][NextDetails]_vars

---------------------------------------------------------------------------
(* Claims on the relationship queries, checked under SpecDetails *)

ShortName(n) == Props(n).short_name

\* the record of rd read from its source to its destination
Connection(src, rd, dst) ==
    [id |-> Props(rd).id, description |-> DetailProps(rd).description,
     relationship_type |-> DetailProps(rd).relationship_type,
     created_at |-> DetailProps(rd).created_at,
     relationship_direction |-> ShortName(src) \o <<" ", "-", ">", " ">> \o ShortName(dst)]

\* the connections between a node of one set and a node of the other, either way
Connections(e1s, e2s) ==
    {Connection(a, rd, b) : <<a, rd, b>> \in
        {t \in Entities \X Details \X Entities :
            /\ <<t[1], t[2]>> \in edges /\ <<t[2], t[3]>> \in edges
            /\ \/ t[1] \in e1s /\ t[3] \in e2s
               \/ t[1] \in e2s /\ t[3] \in e1s}}

BothEntities ==
    /\ IsOp("find_relationship_details")
    /\ Resolved(call.hints1) \subseteq Entities
    /\ Resolved(call.hints2) \subseteq Entities

OneHopAffiliate(s, a) ==
    \E rd \in Details :
        /\ <<s, rd>> \in edges \/ <<rd, s>> \in edges
        /\ <<a, rd>> \in edges \/ <<rd, a>> \in edges
        /\ DetailProps(rd).relationship_type \in relationship_types
        /\ Props(s).entity_type = "company" /\ Props(a).entity_type = "company"

AffiliateClosure ==
    Resolved(call.hints) \cup
        {a \in Entities : \E s \in Resolved(call.hints) : OneHopAffiliate(s, a)}

AwardsOfClosure ==
    {rd \in Details :
        /\ DetailProps(rd).relationship_type = awarded_to
        /\ \E a \in AffiliateClosure : <<rd, a>> \in edges}

\* C20: find_government_awards returns exactly the 'awarded_to'
\* RelationshipDetails whose destination is the resolved entity or an entity
\* one RelationshipDetail hop from it through a listed relationship type
\* with companies on both sides (all of them unless the limit cuts), never
\* one awarded only to an affiliate of an affiliate or to an entity linked
\* by an unlisted type.
C20_AffiliateClosureDepth ==
    IsOp("find_government_awards") =>
        LET returned == {r.id : r \in Range(result)}
            awards == {Props(rd).id : rd \in AwardsOfClosure}
        IN  /\ returned \subseteq awards
            /\ Len(result) <= call.limit
            /\ Len(result) < call.limit => returned = awards

\* E3 is an affiliate (through R2) of E1's affiliate E2 and linked to E1 by
\* the unlisted R3 only; the award R4 went to E3 alone
C20_Witness ==
    /\ IsOp("find_government_awards")
    /\ Resolved(call.hints) = {"E1"}
    /\ {<<"E1", "R1">>, <<"R1", "E2">>, <<"E2", "R2">>, <<"R2", "E3">>,
         <<"E1", "R3">>, <<"R3", "E3">>, <<"R4", "E3">>} \subseteq edges
    /\ {<<"R2", "E1">>, <<"R4", "E1">>, <<"R4", "E2">>} \cap edges = {}
    /\ result = <<>>

---------------------------------------------------------------------------
(* Claims on the labels of what the entity operations return *)

\* C29: every record find_entity returns is an Entity node, also for an id
\* that a Person or a RelationshipDetail carries.  Checked under SpecResolve.
C29_FindEntityOnlyEntities ==
    (call.op = "find_entity" /\ outcome = "ok") =>
        \A i \in 1..Len(result) : Label(result[i]) = "Entity"

\* every selected RelationshipDetail stands between two nodes of the store
SelectedWhole ==
    \A p \in paths :
        /\ \E n \in Nodes : <<n, p[1]>> \in edges
        /\ \E n \in Nodes : <<p[1], n>> \in edges

\* C30: find_entity_by_relationship_query and
\* find_entity_by_relationship_embedding complete without error on every
\* store and return entities only: a selected RelationshipDetail without an
\* Entity on one side produces no null record, takes no place under the
\* limit and does not make the call fail.  Checked under SpecSearch.
C30_NoNullRecords ==
    (/\ call.op \in {"find_entity_by_relationship_query",
                      "find_entity_by_relationship_embedding"}
     /\ outcome \notin {"idle", "ValueError"}
     /\ SelectedWhole) =>
        /\ outcome = "ok"
        /\ Range(result) \subseteq Entities
        /\ Len(result) = Min(call.limit, Cardinality(RelationshipEntities(
                                {p[1] : p \in paths}, call.direction) \ {Null}))

---------------------------------------------------------------------------
(* RelationshipDetailsDB: recent insider activities *)

\* The RelationshipDetail nodes that carry the Insider label too
Insider == {"R1", "R3", "R4"}

\* rd.event_date, a DateTime as <<day number, hour>>, or null
EventDate(rd) ==
    CASE rd = "R1" -> <<2, 1>>
      [] rd = "R2" -> <<3, 0>>
      [] rd = "R3" -> <<3, 0>>
      [] rd = "R4" -> None

\* Cypher date() of a "YYYY-MM-DD" text: the texts tried name a day by one digit
DateOfText(s) == CHOOSE d \in 1..3 : s = <<<<"1", "2", "3">>[d]>>

\* After comparing the whole DateTime with the start of start_date's day
After_WithTime(event_date, start_date) ==
    /\ event_date # None
    /\ \/ event_date[1] > DateOfText(start_date)
       \/ event_date[1] = DateOfText(start_date) /\ event_date[2] > 0

\* date(rd.event_date) > date($start_date); null when event_date is null
After(event_date, start_date) ==
    /\ event_date # None
    /\ event_date[1] > DateOfText(start_date)

\* MATCH (e)-[]-(rd:RelationshipDetail:Insider) WHERE $start_date IS NULL OR
\* date(rd.event_date) > date($start_date): one row per relationship
InsiderRows(starts, start_date) ==
    {t \in starts \X Insider \X {"out", "in"} :
        /\ IF t[3] = "out" THEN <<t[1], t[2]>> \in edges ELSE <<t[2], t[1]>> \in edges
        /\ start_date = None \/ After(EventDate(t[2]), start_date)}

\* ORDER BY rd.event_date DESC, rd.created_at DESC: null sorts first
InsiderBefore(a, b) ==
    LET key(rd) == IF EventDate(rd) = None THEN 1000
                   ELSE EventDate(rd)[1] * 24 + EventDate(rd)[2]
    IN  \/ key(a) > key(b)
        \/ key(a) = key(b) /\ DetailProps(a).created_at >= DetailProps(b).created_at

RECURSIVE InsiderTop(_, _)
InsiderTop(rows, k) ==
    IF k <= 0 \/ rows = {} THEN {<<>>}
    ELSE LET first == {r \in rows : \A q \in rows : InsiderBefore(r[2], q[2])}
         IN  UNION {{<<r>> \o t : t \in InsiderTop(rows \ {r}, k - 1)} : r \in first}

\* RETURN rd.id, rd.description, rd.relationship_type,
\* toString(rd.event_date), rd.created_at
InsiderRecord(rd) ==
    [id |-> Props(rd).id, description |-> DetailProps(rd).description,
     relationship_type |-> DetailProps(rd).relationship_type,
     event_date |-> EventDate(rd), created_at |-> DetailProps(rd).created_at]

find_recent_insider_activites(hints, start_date, limit) ==
    LET m == EntityDB_build_entity_match(hints.id, hints.ticker,
                                         hints.short_name, hints.legal_name)
        start_date_norm == norm(start_date)
    IN  /\ call' = [op |-> "find_recent_insider_activites", hints |-> hints,
                    start_date |-> start_date, limit |-> limit]
        /\ query' = NoQuery
        /\ paths' = {}
        /\ IF m.error # "" \/ (start_date # None /\ start_date_norm = None) THEN
               /\ outcome' = "ValueError"
               /\ result' = <<>>
           ELSE
               /\ outcome' = "ok"
               /\ \E rows \in InsiderTop(InsiderRows(MatchNodes(m), start_date_norm), limit) :
                     result' = [i \in 1..Len(rows) |-> InsiderRecord(rows[i][2])]
        /\ UNCHANGED <<edges, clientVars>>

StartDates == {None, <<>>, <<" ">>, <<"1">>, <<"2">>, <<" ", "2">>, <<"3">>}

FindRecentInsiderActivities ==
    /\ outcome = "idle"
    /\ \E hints \in AwardHints, start_date \in StartDates, limit \in Limits :
           find_recent_insider_activites(hints, start_date, limit)

---------------------------------------------------------------------------
(* PersonDB: the person resolver, and the relationships of a person *)

\* full_name, address and sec_cik of the Person nodes
PersonProps(n) ==
    CASE n = "P1" -> [full_name |-> <<"a", " ", "B">>, address |-> <<"B", "a">>,
                      sec_cik |-> <<"A">>]
      [] n = "P2" -> [full_name |-> <<"b">>, address |-> None, sec_cik |-> <<"b">>]

\* the optional filters and their parameters
PersonFilters(address, sec_cik) ==
    (IF address # None THEN {"address"} ELSE {})
        \cup (IF sec_cik # None THEN {"sec_cik"} ELSE {})

\* PersonDB._build_person_match: name, address and sec_cik are normalised,
\* id is used as given; id first, else the name, which is then required
PersonDB_build_person_match(id, name0, address0, sec_cik0) ==
    LET name == norm(name0)
        address == norm(address0)
        sec_cik == norm(sec_cik0)
        filters == PersonFilters(address, sec_cik)
        value(k) == CASE k = "id" -> id
                      [] k = "name" -> name
                      [] k = "address" -> address
                      [] k = "sec_cik" -> sec_cik
    IN  IF id # None THEN
            [error |-> "", clause |-> "id",
             params |-> [k \in {"id"} \cup filters |-> value(k)]]
        ELSE IF name = None THEN ValueError
        ELSE [error |-> "", clause |-> "name",
              params |-> [k \in {"name"} \cup filters |-> value(k)]]

\* PersonSelects with the filters joined to the first condition by AND
PersonSelects_And(m, n) ==
    /\ Label(n) = "Person"
    /\ IF m.clause = "id" THEN CypherEq(Props(n).id, m.params.id)
       ELSE CONTAINS(toLower(PersonProps(n).full_name), toLower(m.params.name))
    /\ "address" \in DOMAIN m.params =>
          CONTAINS(toLower(PersonProps(n).address), toLower(m.params.address))
    /\ "sec_cik" \in DOMAIN m.params =>
          CypherEq(toLower(PersonProps(n).sec_cik), toLower(m.params.sec_cik))

\* MATCH (p:Person) WHERE <first condition> OR <filter> OR <filter>
PersonSelects(m, n) ==
    /\ Label(n) = "Person"
    /\ \/ IF m.clause = "id" THEN CypherEq(Props(n).id, m.params.id)
          ELSE CONTAINS(toLower(PersonProps(n).full_name), toLower(m.params.name))
       \/ /\ "address" \in DOMAIN m.params
          /\ CONTAINS(toLower(PersonProps(n).address), toLower(m.params.address))
       \/ /\ "sec_cik" \in DOMAIN m.params
          /\ CypherEq(toLower(PersonProps(n).sec_cik), toLower(m.params.sec_cik))

MatchPersons(m) == {n \in Nodes : PersonSelects(m, n)}

\* The resolver applied to a bag of person hints, and the Person nodes its
\* fragment selects in the store
build_person_match(id, name, address, sec_cik) ==
    LET m == PersonDB_build_person_match(id, name, address, sec_cik)
    IN  /\ call' = [op |-> "_build_person_match", id |-> id, name |-> name,
                    address |-> address, sec_cik |-> sec_cik]
        /\ result' = <<>>
        /\ IF m.error # "" THEN
               /\ outcome' = "ValueError"
               /\ query' = NoQuery
               /\ paths' = {}
           ELSE
               /\ outcome' = "ok"
               /\ query' = m
               /\ paths' = {<<n>> : n \in MatchPersons(m)}
        /\ UNCHANGED <<edges, clientVars>>

BuildPersonMatch ==
    /\ outcome = "idle"
    /\ \E id \in {None, <<"2">>, <<"5">>, <<"0">>},
          name \in {None, <<" ">>, <<"a">>, <<"b">>, <<"B", " ">>},
          address \in {None, <<" ">>, <<"a">>},
          sec_cik \in {None, <<"a">>, <<"B">>} :
           build_person_match(id, name, address, sec_cik)

NextPerson ==
    \/ BuildPersonMatch
    \/ Respond

SpecPerson == Init /\ [][NextPerson]_vars

\* {**entity_params, **person_params}: a key of both keeps the person's value
PlainMerge(params1, params2) ==
    [k \in DOMAIN params1 \cup DOMAIN params2 |->
        IF k \in DOMAIN params2 THEN params2[k] ELSE params1[k]]

\* the fragment as the store runs it: each $key reads the merged parameters
BoundPlain(m, merged) == [m EXCEPT !.params = [k \in DOMAIN m.params |-> merged[k]]]

\* MATCH (e)-[]-(rd:RelationshipDetail)-[]-(p) with the date filter: one row
\* per pair of different relationships
PersonRows(es, ps, start_date) ==
    {t \in es \X Details \X ps \X {"out", "in"} \X {"out", "in"} :
        /\ IF t[4] = "out" THEN <<t[1], t[2]>> \in edges ELSE <<t[2], t[1]>> \in edges
        /\ IF t[5] = "out" THEN <<t[2], t[3]>> \in edges ELSE <<t[3], t[2]>> \in edges
        /\ t[1] = t[3] => t[4] = t[5]
        /\ start_date = None \/ After(EventDate(t[2]), start_date)}

find_person_entity_relationships(hints, person, start_date, limit) ==
    LET entity_match == EntityDB_build_entity_match(hints.id, hints.ticker,
                                                    hints.short_name, hints.legal_name)
        person_match == IF entity_match.error # "" THEN ValueError
                        ELSE PersonDB_build_person_match(person.id, person.name,
                                                         None, person.sec_cik)
        start_date_norm == norm(start_date)
    IN  /\ call' = [op |-> "find_person_entity_relationships", hints |-> hints,
                    person |-> person, start_date |-> start_date, limit |-> limit]
        /\ paths' = {}
        /\ IF \/ entity_match.error # ""
              \/ person_match.error # ""
              \/ start_date # None /\ start_date_norm = None
           THEN
               /\ outcome' = "ValueError"
               /\ query' = NoQuery
               /\ result' = <<>>
           ELSE
               LET params == PlainMerge(entity_match.params, person_match.params)
                   e == BoundPlain(entity_match, params)
                   p == BoundPlain(person_match, params)
               IN  /\ outcome' = "ok"
                   /\ query' = [error |-> "", clause |-> "pair", e1 |-> e, e2 |-> p]
                   /\ \E rows \in InsiderTop(PersonRows(MatchNodes(e), MatchPersons(p),
                                                         start_date_norm), limit) :
                         result' = [i \in 1..Len(rows) |-> InsiderRecord(rows[i][2])]
        /\ UNCHANGED <<edges, clientVars>>

PersonHint(id, name, sec_cik) == [id |-> id, name |-> name, sec_cik |-> sec_cik]

\* Person hints: P1 and P2 by id, by name, by sec_cik, and their combinations
PersonHints ==
    {PersonHint(id, name, sec_cik) :
        id \in {None, <<"2">>, <<"5">>}, name \in {None, <<" ">>, <<"b">>},
        sec_cik \in {None, <<"a">>}}

\* Entity hints of the person query: E1 by id, E2 by its short name, none
PersonEntityHints ==
    { Hints(<<"1">>, None, None, None), Hints(None, None, <<"b", "a">>, None),
      Hints(None, None, None, None) }

FindPersonEntityRelationships ==
    /\ outcome = "idle"
    /\ \E hints \in PersonEntityHints, person \in PersonHints,
          start_date \in {None, <<" ">>, <<"2">>}, limit \in Limits :
           find_person_entity_relationships(hints, person, start_date, limit)

\* The relationships the stores of the insider queries choose among
InsiderEdges ==
    { <<"E1", "R1">>, <<"R1", "E2">>, <<"R2", "E1">>, <<"E1", "R3">>, <<"R3", "E3">>,
      <<"R4", "E1">>, <<"R1", "P1">>, <<"P2", "R3">> }

InitInsider ==
    /\ edges \in {S \cup {<<"E4", "R4">>} : S \in SUBSET InsiderEdges}
    /\ call = NoCall
    /\ outcome = "idle"
    /\ query = NoQuery
    /\ result = <<>>
    /\ paths = {}
    /\ driver = NoDriver
    /\ sessions = 0
    /\ trips = <<>>
    /\ pc = "idle"
    /\ config = Configured
    /\ drivers = <<>>

NextInsider ==
    \/ FindRecentInsiderActivities
    \/ FindPersonEntityRelationships
    \/ Respond

SpecInsider == InitInsider /\ [][NextInsider]_vars

---------------------------------------------------------------------------
(* Claims on the insider and person queries, checked under SpecInsider *)

\* the day a start_date text names
StartDay == CHOOSE d \in 1..3 : norm(call.start_date) = <<<<"1", "2", "3">>[d]>>

\* the Insider details touching a resolved node that pass the date filter
InsiderExpected ==
    {rd \in Details :
        /\ rd \in Insider
        /\ \E e \in Resolved(call.hints) : <<e, rd>> \in edges \/ <<rd, e>> \in edges
        /\ call.start_date # None =>
              EventDate(rd) # None /\ EventDate(rd)[1] > StartDay}

\* C21: find_recent_insider_activites returns only Insider RelationshipDetails
\* connected to the resolved entity, with a start_date only those whose
\* event_date is on a later day (an event on start_date's own day is left
\* out whatever its hour), without one no date filter; a start_date empty
\* after normalization fails with ValueError.
C21_InsiderStrictlyAfter ==
    /\ IsOp("find_recent_insider_activites") =>
          LET returned == {r.id : r \in Range(result)}
              expected == {Props(rd).id : rd \in InsiderExpected}
          IN  /\ returned \subseteq expected
              /\ Len(result) < call.limit => returned = expected
    /\ (call.op = "find_recent_insider_activites" /\ outcome # "idle") =>
          (call.start_date # None /\ norm(call.start_date) = None => outcome = "ValueError")

\* start_date is day 2: R1's event on day 2 at 1 o'clock is left out, R3's
\* on day 3 is returned
C21_Witness ==
    /\ IsOp("find_recent_insider_activites")
    /\ Resolved(call.hints) = {"E1"}
    /\ call.start_date = <<" ", "2">>
    /\ {<<"E1", "R1">>, <<"E1", "R3">>} \subseteq edges
    /\ {r.id : r \in Range(result)} = {Props("R3").id}

PersonQueryDone ==
    /\ call.op = "find_person_entity_relationships"
    /\ outcome # "idle"
    /\ Resolved(call.hints) # {} \/ call.hints.id # None
    /\ call.start_date # None => norm(call.start_date) # None

NoPersonHint ==
    /\ call.person.id = None
    /\ norm(call.person.name) = None
    /\ norm(call.person.sec_cik) = None

\* C22: with a usable entity hint and start_date,
\* find_person_entity_relationships fails with ValueError iff none of
\* person_id, person_name and person_sec_cik is provided; any one of them
\* alone, person_sec_cik included, resolves the person and runs the query.
C22_AnyPersonHintSuffices ==
    PersonQueryDone => (outcome = "ValueError" <=> NoPersonHint)

\* the parameters each of the two resolver calls of the last operation built
OwnParams ==
    CASE call.op = "find_person_entity_relationships" ->
            <<EntityDB_build_entity_match(call.hints.id, call.hints.ticker,
                  call.hints.short_name, call.hints.legal_name).params,
              PersonDB_build_person_match(call.person.id, call.person.name,
                  None, call.person.sec_cik).params>>
      [] call.op = "find_relationship_details" ->
            <<EntityDB_build_entity_match(call.hints1.id, call.hints1.ticker,
                  call.hints1.short_name, call.hints1.legal_name).params,
              EntityDB_build_entity_match(call.hints2.id, call.hints2.ticker,
                  call.hints2.short_name, call.hints2.legal_name).params>>
      [] OTHER ->
            <<PathDB_build_entity_match(call.hints1.id, call.hints1.ticker,
                  call.hints1.short_name, call.hints1.legal_name).params,
              PathDB_build_entity_match(call.hints2.id, call.hints2.ticker,
                  call.hints2.short_name, call.hints2.legal_name).params>>

\* C23: in the operations that resolve two identities in one query, each
\* fragment's placeholders are bound to the values its own resolver call
\* supplied, whatever the hints, an entity id together with a person id
\* included.
C23_ParamsNamespaced ==
    (/\ call.op \in {"find_relationship_details", "has_directed_path",
                      "find_directed_paths",
                      "find_directed_paths_with_relationship_details",
                      "find_person_entity_relationships"}
     /\ outcome = "ok") =>
        /\ query.e1.params = OwnParams[1]
        /\ query.e2.params = OwnParams[2]

---------------------------------------------------------------------------
(* Claim on the person resolver, checked under SpecPerson *)

AddressHit(n) ==
    /\ norm(call.address) # None
    /\ CONTAINS(toLower(PersonProps(n).address), toLower(norm(call.address)))

SecCikHit(n) ==
    /\ norm(call.sec_cik) # None
    /\ toLower(PersonProps(n).sec_cik) = toLower(norm(call.sec_cik))

---------------------------------------------------------------------------
(* Claim on the sessions of a call, checked under SpecClient *)

\* how often the call in flight has asked the driver for a session
SessionsAsked == Cardinality({i \in 1..Len(trips) : trips[i] = "session"})

\* the operation of the call in flight has returned or raised
LeftScope == pc \in {"idle", "exit"}

\* C25: every operation runs its query in one session of its own, opened
\* for that call, and the session is closed when the operation returns or
\* raises, whether the query succeeded or the store reported an error; no
\* session is open once a call is over, whatever calls came before it.
C25_SessionsClosed ==
    /\ sessions \in {0, 1}
    /\ sessions = 1 <=> pc \in {"run", "close"}
    /\ LeftScope => sessions = 0
    /\ SessionsAsked <= 1
    /\ outcome \in {"ok", "StoreError"} => SessionsAsked = 1
    /\ "run" \in Range(trips) => SessionsAsked = 1

\* C25 witness: a query failed at the store inside its session, and the
\* operation has left with the error and no session open
C25_Witness ==
    /\ outcome = "StoreError"
    /\ pc = "idle"
    /\ trips = <<"session", "run">>
    /\ sessions = 0

---------------------------------------------------------------------------
(* Neo4jClient statement by statement.  The shared client of mcp_instance  *)
(* is used by every operation of the tool layer; Neo4jClient holds no lock, *)
(* so callers on different threads interleave between the statements of    *)
(* connect(), close() and session().  Under this specification call,       *)
(* outcome, result and pc hold one value per thread, result the message of *)
(* the error a thread was given, trips what its call has done so far      *)
(* ("driver", "verify_connectivity", "close", "session", "run"), and       *)
(* driver.tool is the index in drivers of the object self._driver refers   *)
(* to, 0 for None.                                                         *)

Threads == {"t1", "t2"}

\* Driver objects made before the model stops starting new calls
MaxDrivers == 3

\* NEO4J_URI and NEO4J_PASSWORD as the environment may set them; an empty
\* password is the one `not self.config.neo4j_password` refuses
Configs ==
    [neo4j_uri : {<<"b", "1">>, <<"b", "2">>}, neo4j_password : {<<>>, <<"p">>}]

\* f"Cannot connect to Neo4j database at {self.config.neo4j_uri}. Please ..."
ConnectionErrorMessage(c) == <<"a", "t", " ">> \o c.neo4j_uri \o <<".">>

InitConnect ==
    /\ edges = {}
    /\ call = [t \in Threads |-> "none"]
    /\ outcome = [t \in Threads |-> "idle"]
    /\ query = NoQuery
    /\ result = [t \in Threads |-> <<>>]
    /\ paths = {}
    /\ driver = [tool |-> 0]
    /\ sessions = 0
    /\ trips = [t \in Threads |-> <<>>]
    /\ pc = [t \in Threads |-> "idle"]
    /\ config \in Configs
    /\ drivers = <<>>

\* a thread calls connect() (also __enter__), close() (also __exit__) or
\* session() on the shared client
ClientCall(t) ==
    /\ pc[t] = "idle"
    /\ outcome[t] = "idle"
    /\ Len(drivers) + Cardinality({u \in Threads : pc[u] # "idle"}) < MaxDrivers
    /\ \E op \in {"connect", "close", "session"} :
          /\ call' = [call EXCEPT ![t] = op]
          /\ pc' = [pc EXCEPT ![t] = op]
    /\ trips' = [trips EXCEPT ![t] = <<>>]
    /\ UNCHANGED <<edges, outcome, query, result, paths, driver, sessions,
                   config, drivers>>

\* the method of thread t raises
Raise(t, error, message) ==
    /\ outcome' = [outcome EXCEPT ![t] = error]
    /\ result' = [result EXCEPT ![t] = message]
    /\ pc' = [pc EXCEPT ![t] = "idle"]

\* connect() returns: to its caller, or into session() after `self.connect()`
ConnectReturns(t) ==
    IF call[t] = "session"
    THEN /\ pc' = [pc EXCEPT ![t] = "assert"]
         /\ UNCHANGED <<outcome, result>>
    ELSE /\ outcome' = [outcome EXCEPT ![t] = "ok"]
         /\ pc' = [pc EXCEPT ![t] = "idle"]
         /\ UNCHANGED result

\* connect(): `if self._driver is None:` and the password check
connect_check(t) ==
    /\ pc[t] = "connect"
    /\ IF driver.tool # 0
       THEN ConnectReturns(t)
       ELSE IF config.neo4j_password = <<>>
       THEN Raise(t, "ValueError", <<>>)
       ELSE /\ pc' = [pc EXCEPT ![t] = "create"]
            /\ UNCHANGED <<outcome, result>>
    /\ UNCHANGED <<edges, call, query, paths, driver, sessions, trips, config, drivers>>

\* connect(): self._driver = GraphDatabase.driver(...)
connect_create(t) ==
    /\ pc[t] = "create"
    /\ trips' = [trips EXCEPT ![t] = Append(@, "driver")]
    /\ drivers' = Append(drivers, "open")
    /\ driver' = [driver EXCEPT !.tool = Len(drivers) + 1]
    /\ pc' = [pc EXCEPT ![t] = "verify"]
    /\ UNCHANGED <<edges, call, outcome, query, result, paths, sessions, config>>

\* connect(): self._driver.verify_connectivity(), on whatever self._driver
\* refers to by now; any exception goes to the except clause
connect_verify(t) ==
    /\ pc[t] = "verify"
    /\ trips' = [trips EXCEPT ![t] = IF driver.tool = 0 THEN @
                                     ELSE Append(@, "verify_connectivity")]
    /\ \E reachable \in BOOLEAN :
          IF driver.tool # 0 /\ drivers[driver.tool] = "open" /\ reachable
          THEN ConnectReturns(t)
          ELSE /\ pc' = [pc EXCEPT ![t] = "except"]
               /\ UNCHANGED <<outcome, result>>
    /\ UNCHANGED <<edges, call, query, paths, driver, sessions, config, drivers>>

connect_except_KeepsDriver(t) ==
    /\ pc[t] = "except"
    /\ trips' = [trips EXCEPT ![t] = @]
    /\ IF driver.tool = 0
       THEN /\ Raise(t, "AttributeError", <<>>)
            /\ UNCHANGED drivers
       ELSE /\ pc' = [pc EXCEPT ![t] = "forget"]
            /\ UNCHANGED <<outcome, result, drivers>>
    /\ UNCHANGED <<edges, call, query, paths, driver, sessions, config>>

\* connect(), except clause: self._driver.close()
connect_except(t) ==
    /\ pc[t] = "except"
    /\ trips' = [trips EXCEPT ![t] = IF driver.tool = 0 THEN @ ELSE Append(@, "close")]
    /\ IF driver.tool = 0
       THEN /\ Raise(t, "AttributeError", <<>>)
            /\ UNCHANGED drivers
       ELSE /\ drivers' = [drivers EXCEPT ![driver.tool] = "closed"]
            /\ pc' = [pc EXCEPT ![t] = "forget"]
            /\ UNCHANGED <<outcome, result>>
    /\ UNCHANGED <<edges, call, query, paths, driver, sessions, config>>

\* connect(), except clause: self._driver = None; raise ConnectionError(...)
connect_forget(t) ==
    /\ pc[t] = "forget"
    /\ driver' = [driver EXCEPT !.tool = 0]
    /\ Raise(t, "ConnectionError", ConnectionErrorMessage(config))
    /\ UNCHANGED <<edges, call, query, paths, sessions, trips, config, drivers>>

\* close(): `if self._driver is not None:`
close_check(t) ==
    /\ pc[t] = "close"
    /\ IF driver.tool = 0
       THEN /\ outcome' = [outcome EXCEPT ![t] = "ok"]
            /\ pc' = [pc EXCEPT ![t] = "idle"]
       ELSE /\ pc' = [pc EXCEPT ![t] = "close_driver"]
            /\ UNCHANGED outcome
    /\ UNCHANGED <<edges, call, query, result, paths, driver, sessions, trips,
                   config, drivers>>

\* close(): self._driver.close()
close_driver(t) ==
    /\ pc[t] = "close_driver"
    /\ trips' = [trips EXCEPT ![t] = IF driver.tool = 0 THEN @ ELSE Append(@, "close")]
    /\ IF driver.tool = 0
       THEN /\ Raise(t, "AttributeError", <<>>)
            /\ UNCHANGED drivers
       ELSE /\ drivers' = [drivers EXCEPT ![driver.tool] = "closed"]
            /\ pc' = [pc EXCEPT ![t] = "close_forget"]
            /\ UNCHANGED <<outcome, result>>
    /\ UNCHANGED <<edges, call, query, paths, driver, sessions, config>>

\* close(): self._driver = None
close_forget(t) ==
    /\ pc[t] = "close_forget"
    /\ driver' = [driver EXCEPT !.tool = 0]
    /\ outcome' = [outcome EXCEPT ![t] = "ok"]
    /\ pc' = [pc EXCEPT ![t] = "idle"]
    /\ UNCHANGED <<edges, call, query, result, paths, sessions, trips, config, drivers>>

\* session(): `if self._driver is None: self.connect()`
session_check(t) ==
    /\ pc[t] = "session"
    /\ pc' = [pc EXCEPT ![t] = IF driver.tool = 0 THEN "connect" ELSE "assert"]
    /\ UNCHANGED <<edges, call, outcome, query, result, paths, driver, sessions, trips,
                   config, drivers>>

\* session(): assert self._driver is not None
session_assert(t) ==
    /\ pc[t] = "assert"
    /\ IF driver.tool = 0
       THEN Raise(t, "AssertionError", <<>>)
       ELSE /\ pc' = [pc EXCEPT ![t] = "open"]
            /\ UNCHANGED <<outcome, result>>
    /\ UNCHANGED <<edges, call, query, paths, driver, sessions, trips, config, drivers>>

\* session(): session = self._driver.session(...).  A driver that was closed
\* refuses, or hands out a session no query can use, as its version has it.
session_open(t) ==
    /\ pc[t] = "open"
    /\ IF driver.tool = 0
       THEN /\ Raise(t, "AttributeError", <<>>)
            /\ UNCHANGED sessions
       ELSE IF drivers[driver.tool] = "closed"
       THEN \E refuses \in BOOLEAN :
               IF refuses
               THEN /\ Raise(t, "DriverError", <<>>)
                    /\ UNCHANGED sessions
               ELSE /\ sessions' = sessions + 1
                    /\ pc' = [pc EXCEPT ![t] = "body_closed"]
                    /\ UNCHANGED <<outcome, result>>
       ELSE /\ sessions' = sessions + 1
            /\ pc' = [pc EXCEPT ![t] = "body"]
            /\ UNCHANGED <<outcome, result>>
    /\ trips' = [trips EXCEPT ![t] = IF sessions' > sessions THEN Append(@, "session") ELSE @]
    /\ UNCHANGED <<edges, call, query, paths, driver, config, drivers>>

\* session(): yield session; the caller's block runs its query
session_body(t) ==
    /\ pc[t] \in {"body", "body_closed"}
    /\ trips' = [trips EXCEPT ![t] = Append(@, "run")]
    /\ \E ok \in BOOLEAN :
          outcome' = [outcome EXCEPT
                        ![t] = IF ok /\ pc[t] = "body" THEN "ok" ELSE "StoreError"]
    /\ pc' = [pc EXCEPT ![t] = "finally"]
    /\ UNCHANGED <<edges, call, query, result, paths, driver, sessions,
                   config, drivers>>

\* session(): finally session.close()
session_finally(t) ==
    /\ pc[t] = "finally"
    /\ sessions' = sessions - 1
    /\ pc' = [pc EXCEPT ![t] = "idle"]
    /\ UNCHANGED <<edges, call, outcome, query, result, paths, driver, trips,
                   config, drivers>>

\* the caller of thread t takes what the method returned or raised
ClientReturn(t) ==
    /\ pc[t] = "idle"
    /\ outcome[t] # "idle"
    /\ call' = [call EXCEPT ![t] = "none"]
    /\ outcome' = [outcome EXCEPT ![t] = "idle"]
    /\ result' = [result EXCEPT ![t] = <<>>]
    /\ UNCHANGED <<edges, query, paths, driver, sessions, trips, pc, config, drivers>>

ClientStep(t) ==
    \/ ClientCall(t)
    \/ connect_check(t)
    \/ connect_create(t)
    \/ connect_verify(t)
    \/ connect_except(t)
    \/ connect_forget(t)
    \/ close_check(t)
    \/ close_driver(t)
    \/ close_forget(t)
    \/ session_check(t)
    \/ session_assert(t)
    \/ session_open(t)
    \/ session_body(t)
    \/ session_finally(t)
    \/ ClientReturn(t)

\* callers on two threads, interleaved between statements
NextConnect == \E t \in Threads : ClientStep(t)

SpecConnect == InitConnect /\ [][NextConnect]_vars

\* one caller at a time: a CLI command, or the tool layer serving one call
NextConnectAlone == ClientStep("t1")

SpecConnectAlone == InitConnect /\ [][NextConnectAlone]_vars

---------------------------------------------------------------------------
(* Claims on the connection, checked under SpecConnect and SpecConnectAlone *)

OpenDrivers == {i \in 1..Len(drivers) : drivers[i] = "open"}

\* C26: the client holds one pooled connection: whatever way callers of
\* session(), connect() and close() on the shared client interleave, at most
\* one driver is open at any time, and every open driver is the one the
\* client refers to, so that close() closes it.  (connect() on a connected
\* client and close() on a disconnected one return at their first test.)
C26_OnePooledConnection ==
    /\ Cardinality(OpenDrivers) <= 1
    /\ \A i \in OpenDrivers : driver.tool = i

\* C27: with one caller at a time, a connect() that cannot reach the store
\* raises ConnectionError with the configured URI in its message, having
\* closed the driver it made and left the client without a driver; a
\* connect() that returns has left the client with an open driver, so after
\* a failure it has made a new one; with an empty password connect() raises
\* ValueError and no driver is ever made.
C27_ConnectFailure ==
    /\ \A t \in Threads :
          /\ outcome[t] = "ConnectionError" =>
                /\ CONTAINS(result[t], config.neo4j_uri)
                /\ trips[t] = <<"driver", "verify_connectivity", "close">>
                /\ driver.tool = 0
                /\ drivers # <<>>
                /\ OpenDrivers = {}
          /\ (outcome[t] = "ok" /\ call[t] = "connect") =>
                /\ driver.tool # 0
                /\ OpenDrivers = {driver.tool}
          /\ outcome[t] = "ValueError" =>
                config.neo4j_password = <<>> /\ trips[t] = <<>>
          /\ pc[t] = "verify" => driver.tool = Len(drivers) /\ Last(drivers) = "open"
    /\ config.neo4j_password = <<>> =>
          /\ drivers = <<>>
          /\ \A t \in Threads : outcome[t] \in {"idle", "ValueError"} \/ call[t] = "close"

\* C27 witness: a connect() failed, its driver is closed, and a later
\* connect() has made a second driver and returned
C27_Witness ==
    /\ drivers = <<"closed", "open">>
    /\ driver.tool = 2
    /\ call["t1"] = "connect"
    /\ outcome["t1"] = "ok"

---------------------------------------------------------------------------
(* PathDB: the tier operations find_inray_tier and find_outray_tier *)

\* one turn of the loop that builds rel_pattern: two relationships in the
\* ray's direction, through a RelationshipDetail to an Entity
RayStep(ps, direction) ==
    UNION {{p \o <<r, e>> :
                e \in {x \in Entities : Hop(r, x, direction)}} :
             <<p, r>> \in {<<q, d>> \in ps \X Details : Hop(Last(q), d, direction)}}

RECURSIVE RayPattern(_, _, _)
\* (start) followed by `tier` turns of the loop
RayPattern(ps, tier, direction) ==
    IF tier <= 0 THEN ps ELSE RayPattern(RayStep(ps, direction), tier - 1, direction)

\* RayPaths with every shorter pattern matched as well
RayPaths_Within(starts, tier, direction) ==
    UNION {{p \in RayPattern({<<s>> : s \in starts}, k, direction) :
                Cardinality(Range(p)) = Len(p)} : k \in 1..tier}

\* MATCH path = {rel_pattern}
\* WHERE ALL(n IN nodes(path) WHERE SINGLE(x IN nodes(path) WHERE x = n))
RayPaths(starts, tier, direction) ==
    {p \in RayPattern({<<s>> : s \in starts}, tier, direction) :
        Cardinality(Range(p)) = Len(p)}

\* find_inray_tier ("inbound") and find_outray_tier ("outbound"), the same
\* text but for the arrows: WITH n, min(...) AS tier gives one row per n
find_ray_tier(op, direction, h, tier, limit) ==
    LET m == PathDB_build_entity_match(h.id, h.ticker, h.short_name, h.legal_name)
    IN  /\ call' = [op |-> op, hints |-> h, tier |-> tier, limit |-> limit]
        /\ IF tier < 1 \/ m.error # "" THEN
               /\ outcome' = "ValueError"
               /\ query' = NoQuery
               /\ result' = <<>>
               /\ paths' = {}
           ELSE
               /\ outcome' = "ok"
               /\ query' = m
               /\ paths' = RayPaths(MatchNodes(m), tier, direction)
               /\ result' \in Limited({Last(p) : p \in paths'}, limit)
        /\ UNCHANGED <<edges, clientVars>>

\* The arguments tried: every start hint with every tier from 0, and the
\* missing hint with a valid tier only
TierArgs ==
    { a \in [hints : StartHints, tier : 0..MaxTier, limit : Limits] :
        (a.hints.id = None /\ a.hints.ticker = None) => (a.tier = 1 /\ a.limit = 1) }

FindInrayTier ==
    /\ outcome = "idle"
    /\ \E a \in TierArgs : find_ray_tier("find_inray_tier", "inbound", a.hints, a.tier, a.limit)

FindOutrayTier ==
    /\ outcome = "idle"
    /\ \E a \in TierArgs : find_ray_tier("find_outray_tier", "outbound", a.hints, a.tier, a.limit)

NextTier == FindInrayTier \/ FindOutrayTier \/ Respond

SpecTier == InitGraph /\ [][NextTier]_vars

---------------------------------------------------------------------------
(* Claim on the tier operations, checked under SpecTier *)

IsTierOp == call.op \in {"find_inray_tier", "find_outray_tier"}

\* the relationship between neighbours u, v of a path runs from u to v for
\* an outbound ray and from v to u for an inbound one
AlongRay(u, v) ==
    IF call.op = "find_outray_tier" THEN <<u, v>> \in edges ELSE <<v, u>> \in edges

\* the entities at exactly `tier` entity-hops from a start node s: the ends
\* of the simple paths of 2 * tier relationships from s, all in the ray's
\* direction, that pass through RelationshipDetail and Entity nodes in turn
AtTier(s, tier) ==
    {Last(p) : p \in {q \in VarLengthPaths({s}, 2 * tier,
                                            IF call.op = "find_outray_tier"
                                            THEN "outbound" ELSE "inbound", TRUE) :
        /\ Len(q) = 2 * tier + 1
        /\ \A i \in 2..Len(q) :
              Label(q[i]) = (IF i % 2 = 0 THEN "RelationshipDetail" ELSE "Entity")}}

====
